---- MODULE Spec2Model ----
(***************************************************************************)
(* Function sets and function spaces of odl/space/fspace.py: vectors that  *)
(* wrap an evaluation callable, the validated evaluation protocol          *)
(* FunctionSetVector.__call__, and the algebra of FunctionSpace.           *)
(*                                                                         *)
(* Numbers are integers.  In the one-dimensional scenario the interval     *)
(* [0,1] is the integer interval 0..2 in units of 1/2, so the coordinate   *)
(* array [0.0, 0.5, 1.0] is <<0, 1, 2>> and a product of two values is in  *)
(* units of 1/4 ([0.0, 0.25, 1.0] is <<0, 1, 4>>).                         *)
(*                                                                         *)
(* A Python exception is the name of the failure in the field `res` of the *)
(* outcome of an operation; "ok" is a normal return.                       *)
(***************************************************************************)
EXTENDS Integers, Sequences, FiniteSets, TLC

\* Largest number of points of a sampled coordinate array, and largest
\* length of one axis of a sampled meshgrid.
MaxN == 2

\* Number of vector objects the program holds at a time.
MaxVecs == 2

Slots == 1 .. MaxVecs

\* Domain dimensions sampled: Interval and Rectangle.
Dims == {1, 2}

\* The domain is the box DomIv^ndim; the range of the plain FunctionSet is
\* the interval RngIv.  The field of a FunctionSpace holds every number.
DomIv == 0 .. 2
RngIv == 0 .. 2

\* Sampled coordinates: both ends of the domain interval and one point
\* beyond it; along the further axes one end and the point beyond.
Coords == {0, 2, 3}
CoordsOfAxis(i) == IF i = 1 THEN Coords ELSE {2, 3}

VARIABLES
    space,   \* the domain shared by the FunctionSet and the FunctionSpace
    vecs,    \* the vector objects, by slot
    last     \* what the last operation did: its arguments and its outcome

vars == <<space, vecs, last>>

-----------------------------------------------------------------------------
(* Sequences and arrays *)

RECURSIVE SeqProd(_)
SeqProd(s) == IF s = <<>> THEN 1 ELSE Head(s) * SeqProd(Tail(s))

Const(n, c) == [i \in 1 .. n |-> c]

\* A value an evaluation returns: an ndarray ("arr": shape and the data in C
\* order), a NumPy scalar ("scalar": shape () and one datum), a Python
\* function object ("func") or a Python list ("list").
Arr(shape, data) == [kind |-> "arr", shape |-> shape, data |-> data]
Scalar(c) == [kind |-> "scalar", shape |-> <<>>, data |-> <<c>>]
NoVal == [kind |-> "none", shape |-> <<>>, data |-> <<>>]

\* An input x of an evaluation:
\*   "pt"    an element of the domain: v = << <<c1, .., cd>> >>
\*   "conv"  an object that is no member of the domain, which
\*           domain.element converts to the member v[1]
\*   "arr"   a (d, N) coordinate array: v = the d rows
\*   "flat"  a one-dimensional array of N coordinates: v = << row >>
\*   "mesh"  a meshgrid: v = the axis vectors, component i of shape
\*           (1, .., n_i, .., 1)
\*   "bad"   anything else
\* and, inside a vectorization wrapper, "num": one coordinate as a plain
\* number, v = << <<c>> >>.
Input(kind, v) == [kind |-> kind, v |-> v]

Rows(i, n) == UNION {[1 .. k -> CoordsOfAxis(i)] : k \in 1 .. n}

AllRows == UNION {Rows(i, MaxN) : i \in Dims}

PointsOfDim(d) == {p \in [1 .. d -> Coords] : \A i \in 1 .. d : p[i] \in CoordsOfAxis(i)}

ArrInputs(d) ==
    {Input("arr", v) : v \in {w \in [1 .. d -> AllRows] :
                                 \A i \in 1 .. d : /\ w[i] \in Rows(i, MaxN)
                                                    /\ Len(w[i]) = Len(w[1])}}

MeshInputs(d) ==
    {Input("mesh", v) : v \in {w \in [1 .. d -> AllRows] :
                                  \A i \in 1 .. d : w[i] \in Rows(i, MaxN)}}

FlatInputs == {Input("flat", <<r>>) : r \in Rows(1, MaxN)}

BadInput == Input("bad", <<>>)

\* The coordinate array of the scenario: [0.0, 0.5, 1.0] as a (1, 3) array.
ScenarioX == Input("arr", << <<0, 1, 2>> >>)

-----------------------------------------------------------------------------
(* Sets: the domain, the range (odl.set) *)

InBox(p) == \A i \in 1 .. Len(p) : p[i] \in DomIv

\* `x in self.domain`
contains(x, d) == x.kind = "pt" /\ Len(x.v[1]) = d /\ InBox(x.v[1])

\* self.domain.element(x) returns (TRUE) or raises TypeError / ValueError.
element_converts(x, d) == x.kind \in {"pt", "conv"} /\ Len(x.v[1]) = d /\ InBox(x.v[1])

\* np.atleast_2d(element).T: the (d, 1) coordinate array of one point.
atleast_2d_T(p) == Input("arr", [i \in 1 .. Len(p) |-> <<p[i]>>])

\* self.domain.contains_all(x), x an array or a meshgrid
domain_contains_all(x) ==
    \A i \in 1 .. Len(x.v) : \A k \in 1 .. Len(x.v[i]) : x.v[i][k] \in DomIv

\* self.range.contains_all(out): the range of a FunctionSet is the interval
\* RngIv, the range of a FunctionSpace its field.
range_contains_all(cls, out) ==
    /\ out.kind \in {"arr", "scalar"}
    /\ cls = "FunctionSet" => \A k \in 1 .. Len(out.data) : out.data[k] \in RngIv

-----------------------------------------------------------------------------
(* Input forms and output shapes (odl.util.vectorization) *)

is_valid_input_array(x, d) ==
    \/ x.kind = "arr" /\ Len(x.v) = d
    \/ x.kind = "flat" /\ d = 1

is_valid_input_meshgrid(x, d) == x.kind = "mesh" /\ Len(x.v) = d

out_shape_from_array(x) == <<Len(x.v[1])>>

\* np.broadcast(*x).shape of the components of a meshgrid
out_shape_from_meshgrid(x) == [i \in 1 .. Len(x.v) |-> Len(x.v[i])]

\* np.broadcast(*x).shape of whatever x is: the entries of a one-dimensional
\* array are scalars, the rows of a (d, N) array have shape (N,).
np_broadcast_shape(x) ==
    CASE x.kind \in {"flat", "pt", "num"} -> <<>>
      [] x.kind = "arr" -> <<Len(x.v[1])>>
      [] OTHER -> out_shape_from_meshgrid(x)

\* The shape of the output that belongs to an input in the form the
\* callable receives it.
ShapeOf(x) ==
    IF x.kind = "mesh" THEN out_shape_from_meshgrid(x) ELSE <<Len(x.v[1])>>

\* Stride of axis a in C order.
Stride(shape, a) == SeqProd(SubSeq(shape, a + 1, Len(shape)))

\* The points of an input in the order of the output's data: the columns of
\* an array, the cartesian product of the axes of a meshgrid in C order.
PointsOf(x) ==
    IF x.kind = "mesh"
    THEN LET sh == out_shape_from_meshgrid(x)
         IN [k \in 1 .. SeqProd(sh) |->
                [a \in 1 .. Len(sh) |->
                    x.v[a][(((k - 1) \div Stride(sh, a)) % sh[a]) + 1]]]
    ELSE [k \in 1 .. Len(x.v[1]) |-> [a \in 1 .. Len(x.v) |-> x.v[a][k]]]

-----------------------------------------------------------------------------
(* The callables handed to element, and the library's own zero and one *)

\* "x0"        def f(x): return x[0]           (the scenario's function)
\* "dbl"       def f(x): twice the first coordinate of every point, for
\*             every input form (leaves RngIv beyond the middle of DomIv)
\* "inc_dual"  def f(x, out=None): the first coordinate plus one
\* "fill_ip"   def f(x, out): writes the first coordinate into out
Callables == {"x0", "dbl", "inc_dual", "fill_ip"}

\* zero_vec / one_vec of FunctionSpace.zero / one:
\* np.zeros(np.broadcast(*x).shape), np.ones(np.broadcast(*x).shape)
zero_vec(x) ==
    LET sh == np_broadcast_shape(x) IN Arr(sh, Const(SeqProd(sh), 0))

one_vec(x) ==
    LET sh == np_broadcast_shape(x) IN Arr(sh, Const(SeqProd(sh), 1))

\* Python's x[0]: an entry of a one-dimensional array or of a point, the
\* first row of a (d, N) array, the first component of a meshgrid.
Index0(x) ==
    CASE x.kind \in {"flat", "pt", "conv"} -> Scalar(x.v[1][1])
      [] x.kind = "arr" -> Arr(<<Len(x.v[1])>>, x.v[1])
      [] OTHER -> Arr([i \in 1 .. Len(x.v) |-> IF i = 1 THEN Len(x.v[1]) ELSE 1],
                      x.v[1])

\* The value at one point of the callables that work point by point.
PointValue(f, p) ==
    CASE f = "dbl" -> 2 * p[1]
      [] f = "inc_dual" -> p[1] + 1
      [] OTHER -> p[1]

Pointwise(f, x) ==
    LET pts == PointsOf(x)
    IN Arr(ShapeOf(x), [k \in 1 .. Len(pts) |-> PointValue(f, pts[k])])

\* f(x), the call without an output buffer
UserCall(f, x) ==
    CASE f = "zero_vec" -> zero_vec(x)
      [] f = "one_vec" -> one_vec(x)
      [] x.kind \in {"pt", "num"} -> Scalar(PointValue(f, x.v[1]))
      [] f = "x0" -> Index0(x)
      [] OTHER -> Pointwise(f, x)

\* What _dispatch_call_args finds in the signature of a callable:
\* no output parameter, an optional one, a mandatory (positional) one.
Signature(f) ==
    CASE f = "inc_dual" -> "optional"
      [] f = "fill_ip" -> "positional"
      [] OTHER -> "none"

-----------------------------------------------------------------------------
(* Evaluation closures and vector objects *)

\* A closure stored in _call_out_of_place / _call_in_place:
\*   "user"              the callable f handed to element
\*   "vect_decorator"    what vectorize(f, outarg='optional') returns: the
\*                       decorator, with f bound to the parameter dtype
\*   "default_in_place"  ip_wrapper(_default_in_place) of the vector object
\*                       in slot self
\*   "not_impl"          _out_of_place_not_impl
\*   "raw_default_in_place"  the function _default_in_place(func, x, out)
Clos(op, f, self) == [op |-> op, f |-> f, self |-> self]

NoVec == [cls |-> "none"]

\* The outcome of an evaluation: res, the value returned, the output buffer
\* as the call leaves it, the sets whose contains_all was consulted and the
\* number of invocations of callables handed to element.
Outcome(res, val, buf, ca, ncall) ==
    [res |-> res, val |-> val, buf |-> buf, ca |-> ca, ncall |-> ncall]

Fail(e, buf, ca, ncall) == Outcome(e, NoVal, buf, ca, ncall)

\* FunctionSetVector.__init__(fset, fcall) for the object in slot s
FunctionSetVector_init(spcls, fcall, s) ==
    LET sig == IF fcall.op = "user" THEN Signature(fcall.f) ELSE "none"
        call_has_out == sig # "none"
        call_out_optional == sig = "optional"
    IN [cls |-> "FunctionSetVector",
        space |-> spcls,
        call_has_out |-> call_has_out,
        call_out_optional |-> call_out_optional,
        call_in_place |->
            IF ~call_has_out THEN Clos("default_in_place", "-", s) ELSE fcall,
        call_out_of_place |->
            IF call_has_out /\ ~call_out_optional
            THEN Clos("not_impl", "-", 0) ELSE fcall,
        vectorized |-> "unset"]

\* The attribute `vectorized` of a vector: the value of _vectorized, which
\* only assign and the algebra set; reading it before raises AttributeError.
vectorized_defined(v) == v.vectorized # "unset"

\* out[:] = val
SetAll(out, val) ==
    IF val.kind \in {"arr", "scalar"}
       /\ (val.shape = out.shape \/ Len(val.data) = 1)
    THEN Arr(out.shape,
             IF Len(val.data) = Len(out.data) THEN val.data
             ELSE Const(Len(out.data), val.data[1]))
    ELSE NoVal

\* out[0]
Item0(out) ==
    IF out.kind = "arr" /\ Len(out.shape) >= 1 /\ Len(out.data) >= 1
    THEN IF Len(out.shape) = 1 THEN Scalar(out.data[1])
         ELSE Arr(Tail(out.shape), SubSeq(out.data, 1, SeqProd(Tail(out.shape))))
    ELSE NoVal

\* Elementwise arithmetic of two values with NumPy's broadcasting of a single
\* entry; NoVal when the operands do not fit.  A quotient is kept as the
\* fraction <<numerator, denominator>>.
Apply(op, a, b) ==
    CASE op = "add" -> a + b
      [] op = "mul" -> a * b
      [] OTHER -> <<a, b>>

Elementwise(op, v, w) ==
    LET big == IF Len(v.data) > Len(w.data) \/
                  (Len(v.data) = Len(w.data) /\ Len(v.shape) >= Len(w.shape))
               THEN v ELSE w
        at(u, k) == IF Len(u.data) = 1 THEN u.data[1] ELSE u.data[k]
    IN  IF v.kind \notin {"arr", "scalar"} \/ w.kind \notin {"arr", "scalar"}
        THEN NoVal
        ELSE IF v.shape # w.shape /\ Len(v.data) # 1 /\ Len(w.data) # 1
        THEN NoVal
        ELSE [kind |-> IF v.kind = "scalar" /\ w.kind = "scalar"
                       THEN "scalar" ELSE "arr",
              shape |-> big.shape,
              data |-> [k \in 1 .. Len(big.data) |-> Apply(op, at(v, k), at(w, k))]]

\* A variant of ipow_posint that does not multiply the saved copy back in
\* for an odd n.
RECURSIVE ipow_posint_copy_dropped(_, _)
ipow_posint_copy_dropped(x, n) ==
    IF n = 1 THEN x
    ELSE ipow_posint_copy_dropped(x * x, n \div 2)

\* ipow_posint(x, n) of _scalar_power on one number: x *= x halves n, an
\* odd n keeps a copy of x and multiplies it back in.
RECURSIVE ipow_posint(_, _)
ipow_posint(x, n) ==
    IF n = 1 THEN x
    ELSE IF n % 2 = 0 THEN ipow_posint(x * x, n \div 2)
    ELSE ipow_posint(x * x, n \div 2) * x

\* pow_posint(x, n): on an array a copy handed to ipow_posint, on a scalar
\* x ** n.
RECURSIVE IntPow(_, _)
IntPow(x, n) == IF n = 0 THEN 1 ELSE x * IntPow(x, n - 1)

pow_posint(v, n) ==
    [v EXCEPT !.data = [k \in 1 .. Len(v.data) |->
                           IF v.kind = "arr" THEN ipow_posint(v.data[k], n)
                           ELSE IntPow(v.data[k], n)]]

\* x ** p for p = 0
pow_zero(v) == [v EXCEPT !.data = [k \in 1 .. Len(v.data) |-> 1]]

-----------------------------------------------------------------------------
(* Evaluation: FunctionSetVector._call and FunctionSetVector.__call__ *)

\* A variant of lines 471-475 that asks for contains_all whatever the switch
\* vec_bounds_check says.
missing_capability_unconditional(sp, vbc) == ~sp.hasCA

\* A variant of lines 471-475 that lets the call go on without contains_all.
missing_capability_ignored(sp, vbc) == FALSE

\* Lines 471-475: the bounds check is wanted and the domain has no
\* contains_all.
missing_capability(sp, vbc) == vbc /\ ~sp.hasCA

\* A variant of lines 501-507 that never asks domain.element.
converted_input_skipped(x, d) == x

\* Lines 501-507: an x that is no element of the domain is handed to
\* domain.element; what that returns becomes a (d, 1) array.
converted_input(x, d) ==
    IF ~contains(x, d) /\ element_converts(x, d) THEN atleast_2d_T(x.v[1]) ELSE x

\* Lines 501-507: scalar_out is bound only on the path of an x that is no
\* element of the domain: (out is None) when domain.element converts it,
\* False when that raises.
scalar_out_flag(x, d, out) ==
    IF contains(x, d) THEN "unbound"
    ELSE IF element_converts(x, d) /\ out = NoVal THEN "True" ELSE "False"

\* Lines 511-513, 521-522: x = x[0] for a one-dimensional domain.
passed_input(x, d) ==
    IF d = 1 /\ x.kind \in {"arr", "mesh"} THEN Input("flat", <<x.v[1]>>) ELSE x

\* Lines 510-525: the output shape the input asks for.
expected_out_shape(x, d) ==
    IF is_valid_input_array(x, d) \/ d = 1
    THEN out_shape_from_array(passed_input(x, d))
    ELSE out_shape_from_meshgrid(x)

\* A variant of lines 533-536 that lets every input through.
domain_check_absent(vbc, x) == FALSE

\* Lines 533-536
domain_check_fails(vbc, x) == vbc /\ ~domain_contains_all(x)

\* A call that never tests the shape of what the callable returned.
shape_mismatch_skipped(out_shape, val) == FALSE

\* Line 541
shape_mismatch(out_shape, val) == out_shape # <<1>> /\ val.shape # out_shape

\* Lines 545-549: the range test of the evaluation without output buffer
\* stands behind the raise of line 542 and is never reached.
range_check_out_of_place(vbc, cls, val) == FALSE

\* Lines 560-564
range_check_in_place(vbc, cls, buf) == vbc /\ ~range_contains_all(cls, buf)

NoOut == NoVal

\* return out[0] if scalar_out else out
Return(v, buf, scalar_out, ca, ncall) ==
    CASE scalar_out = "unbound" -> Fail("UnboundLocalError", buf, ca, ncall)
      [] scalar_out = "True" ->
            IF Item0(v) = NoVal
            THEN Fail(IF v.kind = "func" THEN "TypeError" ELSE "IndexError",
                      buf, ca, ncall)
            ELSE Outcome("ok", Item0(v), buf, ca, ncall)
      [] OTHER -> Outcome("ok", v, buf, ca, ncall)

RECURSIVE FunctionSetVector_call(_, _, _, _, _, _)
RECURSIVE call_in_place(_, _, _, _, _)
RECURSIVE call_out_of_place(_, _)
RECURSIVE FirstFailure(_, _)
RECURSIVE SumCalls(_, _)

\* The inputs a vectorization wrapper hands to the wrapped function one by
\* one: the entries of a one-dimensional array ("num", plain numbers), the
\* columns of a (d, N) array and the points of a meshgrid ("pt").
PointInputs(x) ==
    IF x.kind \in {"flat", "pt"}
    THEN [k \in 1 .. Len(x.v[1]) |-> Input("num", << <<x.v[1][k]>> >>)]
    ELSE IF x.kind \in {"arr", "mesh"}
    THEN [k \in 1 .. Len(PointsOf(x)) |-> Input("pt", <<PointsOf(x)[k]>>)]
    ELSE <<>>

\* The first k outcomes of a sequence: the index of the first failure (0 if
\* none), and the invocations they made.
FirstFailure(rs, k) ==
    IF k = 0 THEN 0
    ELSE LET before == FirstFailure(rs, k - 1)
         IN IF before # 0 THEN before
            ELSE IF rs[k].res # "ok" \/ Len(rs[k].val.data) # 1 THEN k ELSE 0

SumCalls(rs, k) == IF k = 0 THEN 0 ELSE SumCalls(rs, k - 1) + rs[k].ncall

\* _vect_wrapper(x, None) of vectorize: out[i] = func(pt) for every point;
\* rs are the outcomes of func at the points of x.
vect_wrapper_no_out(x, rs) ==
    IF x.kind \notin {"flat", "pt", "arr", "mesh"}
    THEN Fail("TypeError", NoVal, {}, 0)
    ELSE LET bad == FirstFailure(rs, Len(rs))
         IN IF bad # 0
            THEN Fail(IF rs[bad].res # "ok" THEN rs[bad].res ELSE "ValueError",
                      NoVal, {}, SumCalls(rs, bad))
            ELSE Outcome("ok",
                         Arr(IF x.kind = "mesh" THEN out_shape_from_meshgrid(x)
                             ELSE <<Len(rs)>>,
                             [k \in 1 .. Len(rs) |-> rs[k].val.data[1]]),
                         NoVal, {}, SumCalls(rs, Len(rs)))

\* func(x) of a callable handed to element or to a vectorization wrapper:
\* f(x) = x[0] on a plain number raises IndexError.
func_call(f, x) ==
    IF f = "x0" /\ x.kind = "num"
    THEN Fail("IndexError", NoOut, {}, 1)
    ELSE Outcome("ok", UserCall(f, x), NoOut, {}, 1)

\* The outcome of a call of a decorated function: an outcome and which
\* object the call returned, "out" (the buffer it was handed), "new" (an
\* object it allocated) or "none" (it raised).
Decorated(o, ret) == o @@ [ret |-> ret]

\* Lines 160-165 and 172-177: the output a wrapper allocates when it is
\* handed none: np.empty(out_shape, dtype), or without dtype the list
\* [0] * out_shape[0].
vect_alloc(dtype, x) ==
    LET out_shape == IF x.kind = "mesh" THEN out_shape_from_meshgrid(x)
                     ELSE out_shape_from_array(x)
    IN IF dtype = "None"
       THEN [kind |-> "list", shape |-> <<out_shape[1]>>,
             data |-> Const(out_shape[1], 0)]
       ELSE Arr(out_shape, Const(SeqProd(out_shape), 0))

\* Lines 167-169 and 181-182: the loop out[i] = func(pt) or
\* out.flat[i] = func(pt) over the outcomes rs of func at the points.  Each
\* right-hand side is evaluated before its write; the loop ends at the first
\* func that raises, at the first value that is no single entry and at the
\* first index beyond the output; a list has no attribute `flat`.  `given`
\* is the buffer the caller handed over (NoOut if none).
vect_fill(out, given, rs, flat) ==
    LET n == Len(rs)
        slots == Len(out.data)
        bad == FirstFailure(rs, n)
        over == IF n > slots THEN slots + 1 ELSE 0
        stop == IF flat /\ out.kind = "list" THEN 1
                ELSE IF bad # 0 /\ (over = 0 \/ bad <= over) THEN bad
                ELSE over
        err == IF stop = 0 THEN "ok"
               ELSE IF rs[stop].res # "ok" THEN rs[stop].res
               ELSE IF flat /\ out.kind = "list" THEN "AttributeError"
               ELSE IF stop = bad THEN "ValueError"
               ELSE "IndexError"
        written == IF stop = 0 THEN n ELSE stop - 1
        filled == [out EXCEPT !.data =
                      [k \in 1 .. slots |-> IF k <= written
                                            THEN rs[k].val.data[1]
                                            ELSE out.data[k]]]
        left == IF given = NoOut THEN NoOut ELSE filled
    IN IF err = "ok"
       THEN Decorated(Outcome("ok", filled, left, {}, SumCalls(rs, n)),
                      IF given = NoOut THEN "new" ELSE "out")
       ELSE Decorated(Fail(err, left, {}, SumCalls(rs, stop)), "none")

\* _vect_wrapper(x, out), lines 185-203, of vectorize(dtype, outarg)(f)
vect_wrapper_dispatch(dtype, f, x, out) ==
    LET rs == [k \in 1 .. Len(PointInputs(x)) |-> func_call(f, PointInputs(x)[k])]
        o == IF out = NoOut THEN vect_alloc(dtype, x) ELSE out
    IN IF x.kind \in {"arr", "flat"} THEN vect_fill(o, out, rs, FALSE)
       ELSE IF x.kind = "mesh" THEN vect_fill(o, out, rs, TRUE)
       ELSE Decorated(Fail("TypeError", out, {}, 0), "none")

\* The function vectorize(dtype, outarg)(f) returns, lines 205-230, called
\* with x alone (how = "x"), with out as second positional argument
\* (how = "pos") or with the keyword out (how = "kw"); out = NoOut with
\* "pos" and "kw" is an explicit None.
\*   vect_wrapper_no_out(x, **kwargs)
\*   vect_wrapper_pos_out(x, out, **kwargs)
\*   vect_wrapper_opt_out(x, out=None, **kwargs)
decorated_call(dtype, outarg, f, x, how, out) ==
    IF \/ outarg = "none" /\ how # "x"
       \/ outarg = "positional" /\ how = "x"
    THEN Decorated(Fail("TypeError", out, {}, 0), "none")
    ELSE vect_wrapper_dispatch(dtype, f, x, out)

\* vectorize(dtype, outarg)(f), lines 220-230: the outarg is checked when
\* the function is decorated.
vect_decorator(dtype, outarg, f) ==
    IF outarg \in {"none", "positional", "optional"} THEN "ok" ELSE "ValueError"

\* `out *= c` on what an operand returned, skipped for c = 1
scaled(r, c) ==
    IF r.res # "ok" \/ c = 1 THEN r
    ELSE IF Elementwise("mul", r.val, Scalar(c)) = NoVal
    THEN Fail("TypeError", NoVal, {}, r.ncall)
    ELSE Outcome("ok", [Elementwise("mul", r.val, Scalar(c)) EXCEPT
                           !.kind = r.val.kind], NoVal, {}, r.ncall)

\* r1 op r2 of two evaluated operands
joined(op, r1, r2) ==
    IF r1.res # "ok" THEN r1
    ELSE IF r2.res # "ok" THEN Fail(r2.res, NoVal, {}, r1.ncall + r2.ncall)
    ELSE IF Elementwise(op, r1.val, r2.val) = NoVal
    THEN Fail(IF r1.val.kind \in {"arr", "scalar"} /\ r2.val.kind \in {"arr", "scalar"}
              THEN "ValueError" ELSE "TypeError",
              NoVal, {}, r1.ncall + r2.ncall)
    ELSE Outcome("ok", Elementwise(op, r1.val, r2.val), NoVal, {},
                 r1.ncall + r2.ncall)

\* lincomb_call_out_of_place(x), lines 802-823; r1 = x1_call_oop(x) and
\* r2 = x2_call_oop(x), each used only where the code makes the call.
lincomb_call_out_of_place(a, b, r1, r2) ==
    IF a = 0 /\ b # 0 THEN scaled(r2, b)
    ELSE IF b = 0 THEN scaled(r1, a)
    ELSE joined("add", scaled(r1, a), scaled(r2, b))

\* product_call_out_of_place(x), quotient_call_out_of_place(x)
product_call_out_of_place(r1, r2) == joined("mul", r1, r2)

quotient_call_out_of_place(r1, r2) == joined("div", r1, r2)

\* power_call_out_of_place(x), lines 999-1004; r = x_call_oop(x)
power_call_out_of_place(p, r) ==
    IF r.res # "ok" THEN r
    ELSE IF r.val.kind \notin {"arr", "scalar"}
    THEN Fail("TypeError", NoVal, {}, r.ncall)
    ELSE Outcome("ok", IF p >= 1 THEN pow_posint(r.val, p) ELSE pow_zero(r.val),
                 NoVal, {}, r.ncall)

\* The operation of a closure the algebra built, dual use or out of place.
BaseOp(op) ==
    CASE op \in {"lincomb_call", "lincomb_call_out_of_place"} -> "lincomb"
      [] op \in {"product_call", "product_call_out_of_place"} -> "product"
      [] op \in {"quotient_call", "quotient_call_out_of_place"} -> "quotient"
      [] op \in {"power_call", "power_call_out_of_place"} -> "power"
      [] OTHER -> op

\* The calls a closure makes when it is called without an output buffer, as
\* pairs <<closure, input>>: a vectorization wrapper calls the wrapped
\* function at every point, a closure of the algebra its operands at x.
SubCalls(c, x) ==
    CASE c.op = "vect_wrapper" ->
            [k \in 1 .. Len(PointInputs(x)) |-> <<c.func, PointInputs(x)[k]>>]
      [] BaseOp(c.op) \in {"lincomb", "product", "quotient"} ->
            << <<c.x1_oop, x>>, <<c.x2_oop, x>> >>
      [] BaseOp(c.op) = "power" -> << <<c.x1_oop, x>> >>
      [] OTHER -> <<>>

\* self._call_out_of_place(x), c the stored closure
call_out_of_place(c, x) ==
    LET rs == [k \in 1 .. Len(SubCalls(c, x)) |->
                  call_out_of_place(SubCalls(c, x)[k][1], SubCalls(c, x)[k][2])]
    IN CASE c.op = "user" -> func_call(c.f, x)
         [] c.op = "vect_decorator" -> Outcome("ok", [kind |-> "func", shape |-> <<>>, data |-> <<>>],
                       NoOut, {}, 0)
         [] c.op = "not_impl" -> Fail("NotImplementedError", NoOut, {}, 0)
         [] c.op = "vect_wrapper" -> vect_wrapper_no_out(x, rs)
         [] BaseOp(c.op) = "lincomb" ->
               lincomb_call_out_of_place(c.a, c.b, rs[1], rs[2])
         [] BaseOp(c.op) = "product" -> product_call_out_of_place(rs[1], rs[2])
         [] BaseOp(c.op) = "quotient" -> quotient_call_out_of_place(rs[1], rs[2])
         [] BaseOp(c.op) = "power" -> power_call_out_of_place(c.a, rs[1])
         [] OTHER -> Fail("TypeError", NoOut, {}, 0)

\* An in-place evaluation that left `buf` in the buffer
Wrote(buf, ca, ncall) == Outcome("ok", buf, buf, ca, ncall)

\* `out op= tmp` after both operands were evaluated in place: r1 into out,
\* r2 into tmp = np.empty_like(out)
joined_in_place(op, r1, r2) ==
    IF r1.res # "ok" THEN r1
    ELSE IF r2.res # "ok"
    THEN Fail(r2.res, r1.buf, r1.ca \cup r2.ca, r1.ncall + r2.ncall)
    ELSE Wrote(Elementwise(op, r1.buf, r2.buf), r1.ca \cup r2.ca,
               r1.ncall + r2.ncall)

scaled_in_place(r, c) ==
    IF r.res # "ok" \/ c = 1 THEN r
    ELSE Wrote(Elementwise("mul", r.buf, Scalar(c)), r.ca, r.ncall)

\* lincomb_call_in_place(x, out), lines 825-849; r1 = x1_call_ip(x, out) and
\* r2 = x2_call_ip(x, tmp), each used only where the code makes the call.
lincomb_call_in_place(a, b, out, r1, r2) ==
    IF out.kind # "arr" THEN Fail("TypeError", out, {}, 0)
    ELSE IF a = 0 /\ b = 0 THEN Wrote(Elementwise("mul", out, Scalar(0)), {}, 0)
    ELSE IF a = 0 THEN scaled_in_place(r2, b)
    ELSE IF b = 0 THEN scaled_in_place(r1, a)
    ELSE joined_in_place("add", scaled_in_place(r1, a), scaled_in_place(r2, b))

\* power_call_in_place(x, out), lines 1006-1013; r = x_call_ip(x, out)
power_call_in_place(p, r) ==
    IF r.res # "ok" THEN r
    ELSE Wrote(IF p >= 1 THEN pow_posint(r.buf, p) ELSE pow_zero(r.buf),
               r.ca, r.ncall)

\* _vect_wrapper(x, out) of vectorize(dtype, outarg='positional')(func); r is
\* what the loop out[i] = func(pt) collects.
vect_wrapper_pos_out(out, r) ==
    IF r.res # "ok" THEN Fail(r.res, out, {}, r.ncall)
    ELSE IF Len(r.val.data) # Len(out.data) THEN Fail("IndexError", out, {}, r.ncall)
    ELSE Wrote(Arr(out.shape, r.val.data), {}, r.ncall)

\* f(x, out) of a callable that takes an output parameter
func_call_in_place(f, x, out) ==
    IF Len(PointsOf(x)) = Len(out.data)
    THEN Wrote(SetAll(out, Pointwise(f, x)), {}, 1)
    ELSE Fail("ValueError", out, {}, 1)

\* A variant of _default_in_place that returns out without the assignment
\* out[:] = func(x)
default_in_place_unwritten(r, out) ==
    IF r.res # "ok" THEN Fail(r.res, out, r.ca, r.ncall)
    ELSE Wrote(out, r.ca, r.ncall)

\* _default_in_place(func, x, out): out[:] = func(x), r what func(x) gives
default_in_place(r, out) ==
    IF r.res # "ok" THEN Fail(r.res, out, r.ca, r.ncall)
    ELSE IF SetAll(out, r.val) = NoVal THEN Fail("ValueError", out, r.ca, r.ncall)
    ELSE Wrote(SetAll(out, r.val), r.ca, r.ncall)

\* The operands a dual-use closure of the algebra evaluates in place.
SubClosures(c) ==
    CASE c.op \in {"lincomb_call", "product_call", "quotient_call"} ->
            <<c.x1_ip, c.x2_ip>>
      [] c.op = "power_call" -> <<c.x1_ip>>
      [] OTHER -> <<>>

\* self._call_in_place(x, out=out), c the stored closure
call_in_place(h, sp, c, x, out) ==
    LET rs == [k \in 1 .. Len(SubClosures(c)) |->
                  call_in_place(h, sp, SubClosures(c)[k], x, out)]
    IN CASE c.op = "user" -> func_call_in_place(c.f, x, out)
         [] c.op = "default_in_place" ->
               \* func the vector object itself
               default_in_place(
                   FunctionSetVector_call(h, sp, c.self, x, NoOut, TRUE), out)
         [] c.op = "vect_wrapper" /\ c.outarg = "positional" ->
               vect_wrapper_pos_out(out, call_out_of_place(c, x))
         [] c.op = "lincomb_call" ->
               lincomb_call_in_place(c.a, c.b, out, rs[1], rs[2])
         [] c.op = "product_call" -> joined_in_place("mul", rs[1], rs[2])
         [] c.op = "quotient_call" -> joined_in_place("div", rs[1], rs[2])
         [] c.op = "power_call" -> power_call_in_place(c.a, rs[1])
         \* _default_in_place(func, x, out) called as (x, out=out)
         [] OTHER -> Fail("TypeError", out, {}, 0)

\* self(x, out, vec_bounds_check=vbc) for the vector in slot s of the heap h.
\* Lines 538-549 are read with the shape test inside `if out is None:`, as
\* the comment of the `else` ("out is not None") says; the range test of
\* lines 545-549 then follows the raise of the shape test and never runs.
FunctionSetVector_call(h, sp, s, x, out, vbc) ==
    LET self == h[s]
        d == sp.ndim
        x1 == converted_input(x, d)
        scalar_out == scalar_out_flag(x, d, out)
        isArr == is_valid_input_array(x1, d)
        isMesh == ~isArr /\ is_valid_input_meshgrid(x1, d)
        xp == passed_input(x1, d)
        out_shape == expected_out_shape(x1, d)
        ca == IF vbc THEN {"domain"} ELSE {}
    IN  IF missing_capability(sp, vbc) THEN Fail("MissingCapability", out, {}, 0)
        ELSE IF ~isArr /\ ~isMesh THEN Fail("InvalidInput", out, {}, 0)
        ELSE IF domain_check_fails(vbc, xp) THEN Fail("OutOfDomain", out, ca, 0)
        ELSE IF out = NoOut
        THEN LET r == call_out_of_place(self.call_out_of_place, xp)
             IN IF r.res # "ok" THEN Fail(r.res, out, ca, r.ncall)
                ELSE IF out_shape # <<1>> /\ r.val.kind \notin {"arr", "scalar"}
                THEN Fail("AttributeError", out, ca, r.ncall)
                ELSE IF shape_mismatch(out_shape, r.val)
                THEN Fail("ShapeMismatch", out, ca, r.ncall)
                ELSE IF range_check_out_of_place(vbc, self.space, r.val)
                THEN Fail("OutOfRange", out, ca \cup {"range"}, r.ncall)
                ELSE Return(r.val, out, scalar_out, ca, r.ncall)
        ELSE IF ~vectorized_defined(self) THEN Fail("AttributeError", out, ca, 0)
        ELSE IF self.vectorized = "False" THEN Fail("InvalidUsage", out, ca, 0)
        ELSE IF out.kind # "arr" THEN Fail("TypeError", out, ca, 0)
        ELSE IF out.shape # out_shape THEN Fail("ShapeMismatch", out, ca, 0)
        ELSE LET r == call_in_place(h, sp, self.call_in_place, xp, out)
             IN IF r.res # "ok" THEN Fail(r.res, r.buf, ca \cup r.ca, r.ncall)
                ELSE IF range_check_in_place(vbc, self.space, r.buf)
                THEN Fail("OutOfRange", r.buf, ca \cup r.ca \cup {"range"}, r.ncall)
                ELSE Return(r.buf, r.buf, scalar_out,
                            ca \cup r.ca \cup (IF vbc THEN {"range"} ELSE {}),
                            r.ncall)

-----------------------------------------------------------------------------
(* Construction: FunctionSet.element, FunctionSpace.element, zero, one *)

\* vectorize(dtype=None, outarg='none') returns the decorator vect_decorator;
\* called as vectorize(fcall, outarg='optional') it binds fcall to dtype and
\* returns the decorator, not a wrapped fcall.
vectorize(f) == Clos("vect_decorator", f, 0)

\* FunctionSpaceVector.__init__(fspace, fcall, vectorized=True) calls
\* FunctionSetVector.__init__(self, fspace, fcall, vectorized=vectorized),
\* whose parameters are (self, fset, fcall): TypeError, no object.
FunctionSpaceVector_init(fcall, s) ==
    [res |-> "TypeError", vec |-> NoVec]

\* self.element_type(self, fcall)
element_type(spcls, fcall, s) ==
    IF spcls = "FunctionSpace" THEN FunctionSpaceVector_init(fcall, s)
    ELSE [res |-> "ok", vec |-> FunctionSetVector_init(spcls, fcall, s)]

\* FunctionSet.element(fcall, vectorized): f = "None" is no callable.
FunctionSet_element(spcls, f, vectorized, s) ==
    IF f = "None" THEN [res |-> "TypeError", vec |-> NoVec]
    ELSE element_type(spcls,
                      IF ~vectorized THEN vectorize(f) ELSE Clos("user", f, 0),
                      s)

\* FunctionSpace.zero(vectorized) / one(vectorized)
zero(vectorized, s) ==
    FunctionSet_element("FunctionSpace",
                        IF vectorized THEN "zero_vec" ELSE "zero_novec",
                        vectorized, s)

one(vectorized, s) ==
    FunctionSet_element("FunctionSpace",
                        IF vectorized THEN "one_vec" ELSE "one_novec",
                        vectorized, s)

\* FunctionSpace.element(fcall, vectorized)
FunctionSpace_element(f, vectorized, s) ==
    IF f = "None" THEN zero(vectorized, s)
    ELSE FunctionSet_element("FunctionSpace", f, vectorized, s)

element(spcls, f, vectorized, s) ==
    IF spcls = "FunctionSpace" THEN FunctionSpace_element(f, vectorized, s)
    ELSE FunctionSet_element(spcls, f, vectorized, s)

-----------------------------------------------------------------------------
(* assign, copy and the algebra of FunctionSpace *)

\* A closure built by the algebra: the operation, its scalars and the
\* closures of the operands it captured.
\*   "lincomb_call", "product_call", "quotient_call"      dual use
\*   "lincomb_call_out_of_place", "product_call_out_of_place",
\*   "quotient_call_out_of_place"                         out of place
Composite(op, a, b, x1_oop, x1_ip, x2_oop, x2_ip) ==
    [op |-> op, a |-> a, b |-> b, x1_oop |-> x1_oop, x1_ip |-> x1_ip,
     x2_oop |-> x2_oop, x2_ip |-> x2_ip]

\* vectorize(dtype, outarg=outarg)(func)
vect_wrapper(outarg, func) == [op |-> "vect_wrapper", outarg |-> outarg, func |-> func]

\* `x1.vectorized or x2.vectorized`: "error" when an attribute that is read
\* is not defined; x2.vectorized is read only when x1.vectorized is false.
or_vectorized(x1, x2) ==
    CASE ~vectorized_defined(x1) -> "error"
      [] x1.vectorized = "True" -> "True"
      [] ~vectorized_defined(x2) -> "error"
      [] OTHER -> x2.vectorized

\* The body shared by _lincomb, _multiply and _divide: store the operands'
\* closures, vectorize the closures of a non-vectorized operand when the
\* other one is vectorized, install the new closures and flags in out.
combine(h, name, a, i, b, j, o) ==
    LET x1 == h[i]
        x2 == h[j]
        vect == or_vectorized(x1, x2)
        x1_oop == IF vect = "True" /\ x1.vectorized # "True"
                  THEN vect_wrapper("none", x1.call_out_of_place)
                  ELSE x1.call_out_of_place
        x1_ip == IF vect = "True" /\ x1.vectorized # "True"
                 THEN vect_wrapper("positional", x1_oop)
                 ELSE x1.call_in_place
        x2_oop == IF vect = "True" /\ x2.vectorized # "True"
                  THEN vect_wrapper("none", x2.call_out_of_place)
                  ELSE x2.call_out_of_place
        x2_ip == IF vect = "True" /\ x2.vectorized # "True"
                 THEN vect_wrapper("positional", x2_oop)
                 ELSE x2.call_in_place
        dual == Composite(name, a, b, x1_oop, x1_ip, x2_oop, x2_ip)
        oop == Composite(name \o "_out_of_place", a, b, x1_oop, x1_ip,
                         x2_oop, x2_ip)
    IN  IF vect = "error" THEN [res |-> "AttributeError", heap |-> h]
        ELSE [res |-> "ok",
              heap |-> [h EXCEPT ![o] =
                 [@ EXCEPT !.call_out_of_place = IF vect = "True" THEN dual ELSE oop,
                           !.call_in_place =
                               IF vect = "True" THEN dual
                               ELSE Clos("raw_default_in_place", "-", 0),
                           !.call_has_out = (vect = "True"),
                           !.call_out_optional = (vect = "True"),
                           !.vectorized = vect]]]

lincomb(h, a, i, b, j, o) == combine(h, "lincomb_call", a, i, b, j, o)

multiply(h, i, j, o) == combine(h, "product_call", 1, i, 1, j, o)

divide(h, i, j, o) == combine(h, "quotient_call", 1, i, 1, j, o)

\* FunctionSpace._scalar_power(x, p, out): after defining its closures it
\* reads self.vectorized, self the space; a space has no such attribute.
scalar_power(h, i, p, o) == [res |-> "AttributeError", heap |-> h]

\* A variant of assign that takes over the closures of other and leaves the
\* flags of self as they are.
assign_closures_only(h, i, j) ==
    [res |-> "ok",
     heap |-> [h EXCEPT ![i] =
                  [@ EXCEPT !.call_in_place = h[j].call_in_place,
                            !.call_out_of_place = h[j].call_out_of_place]]]

\* self.assign(other): the four closure and flag fields are copied, then
\* other.vectorized is read.
assign(h, i, j) ==
    LET other == h[j]
        copied == [h[i] EXCEPT !.call_in_place = other.call_in_place,
                               !.call_out_of_place = other.call_out_of_place,
                               !.call_has_out = other.call_has_out,
                               !.call_out_optional = other.call_out_optional]
    IN  IF h[i].space # other.space
        THEN [res |-> "TypeError", heap |-> h]
        ELSE IF ~vectorized_defined(other)
        THEN [res |-> "AttributeError", heap |-> [h EXCEPT ![i] = copied]]
        ELSE [res |-> "ok",
              heap |-> [h EXCEPT ![i] =
                           [copied EXCEPT !.vectorized = other.vectorized]]]

\* self.copy(): result = self.space.element(); result.assign(self)
copy(h, i, s) ==
    LET r == element(h[i].space, "None", TRUE, s)
    IN  IF r.res # "ok" THEN [res |-> r.res, heap |-> h]
        ELSE assign([h EXCEPT ![s] = r.vec], s, i)

\* self == other, self in slot i and other in slot j (lines 605-623): "True",
\* "False", or "AttributeError" when `vectorized` is read and not defined.
FunctionSetVector_eq(h, i, j) ==
    LET self == h[i]
        other == h[j]
    IN  IF i = j THEN "True"
        ELSE IF other = NoVec THEN "False"
        ELSE IF self.call_has_out # other.call_has_out
                \/ self.call_out_optional # other.call_out_optional
        THEN "False"
        ELSE IF self.space # other.space THEN "False"
        ELSE IF ~vectorized_defined(self) \/ ~vectorized_defined(other)
        THEN "AttributeError"
        ELSE IF self.vectorized # other.vectorized THEN "False"
        ELSE IF self.call_has_out
        THEN (IF self.call_in_place = other.call_in_place THEN "True" ELSE "False")
        ELSE (IF self.call_out_of_place = other.call_out_of_place
              THEN "True" ELSE "False")

-----------------------------------------------------------------------------
(* The state machine *)

SpaceClasses == {"FunctionSet", "FunctionSpace"}

NoArg == <<>>

\* The record of an operation: what was called, on which slot, with which
\* arguments, its outcome, and whether it changed an object.
Record(op, s, arg, x, out, vbc, o, changed) ==
    [op |-> op, slot |-> s, arg |-> arg, x |-> x, out |-> out, vbc |-> vbc,
     res |-> o.res, val |-> o.val, buf |-> o.buf, ca |-> o.ca,
     ncall |-> o.ncall, changed |-> changed]

\* The record of an operation on the objects that leaves the heap h.
Last(op, s, arg, x, out, vbc, o, h) ==
    Record(op, s, arg, x, out, vbc, o, h # vecs)

Plain(res) == Outcome(res, NoVal, NoOut, {}, 0)

Init ==
    /\ space \in [ndim : Dims, hasCA : BOOLEAN]
    /\ vecs = [s \in Slots |-> NoVec]
    /\ last = Record("init", 0, NoArg, BadInput, NoOut, TRUE, Plain("ok"), TRUE)

\* The first free slot: where a new object goes.
FreeSlot(s) == vecs[s] = NoVec /\ \A t \in Slots : t < s => vecs[t] # NoVec

\* The arguments element is sampled with.
ElementArgs ==
    {<<f, TRUE>> : f \in Callables} \cup {<<"x0", FALSE>>, <<"None", TRUE>>}

\* v = space.element(f, vectorized=vz), space a FunctionSet or FunctionSpace
Element(spcls, f, vz, s) ==
    /\ FreeSlot(s)
    /\ LET r == element(spcls, f, vz, s)
       IN /\ vecs' = [vecs EXCEPT ![s] = r.vec]
          /\ last' = Last("element", s, <<spcls, f, vz>>, BadInput, NoOut,
                          TRUE, Plain(r.res), [vecs EXCEPT ![s] = r.vec])
    /\ UNCHANGED space

\* v = fspace.zero(vectorized=vz)
Zero(vz, s) ==
    /\ FreeSlot(s)
    /\ LET r == zero(vz, s)
       IN /\ vecs' = [vecs EXCEPT ![s] = r.vec]
          /\ last' = Last("zero", s, <<vz>>, BadInput, NoOut, TRUE,
                          Plain(r.res), [vecs EXCEPT ![s] = r.vec])
    /\ UNCHANGED space

\* v = fspace.one(vectorized=vz)
One(vz, s) ==
    /\ FreeSlot(s)
    /\ LET r == one(vz, s)
       IN /\ vecs' = [vecs EXCEPT ![s] = r.vec]
          /\ last' = Last("one", s, <<vz>>, BadInput, NoOut, TRUE,
                          Plain(r.res), [vecs EXCEPT ![s] = r.vec])
    /\ UNCHANGED space

\* The output shape that belongs to an input, for sampling output buffers.
SampleShape(x) ==
    CASE x.kind = "mesh" -> out_shape_from_meshgrid(x)
      [] x.kind \in {"arr", "flat"} -> <<Len(x.v[1])>>
      [] OTHER -> <<1>>

\* Output arguments sampled: none, a buffer of the expected shape, a buffer
\* with one entry too many; a buffer holds 7 everywhere before the call.
OutArgs(x) ==
    LET sh == SampleShape(x)
        n == SeqProd(sh)
    IN {NoOut, Arr(sh, Const(n, 7)), Arr(<<n + 1>>, Const(n + 1, 7))}

\* The inputs sampled for a domain of dimension d.
InputsOfDim ==
    [d \in Dims |->
        ArrInputs(d) \cup MeshInputs(d)
        \cup {Input("pt", <<p>>) : p \in PointsOfDim(d)}
        \cup {Input("conv", <<p>>) : p \in {q \in PointsOfDim(d) :
                                               \A i \in 1 .. d : q[i] \in DomIv}}
        \cup {BadInput} \cup (IF d = 1 THEN FlatInputs \cup {ScenarioX} ELSE {})]

Inputs(d) == InputsOfDim[d]

\* vecs[s](x, out, vec_bounds_check=vbc)
Call(s, x, out, vbc) ==
    /\ vecs[s] # NoVec
    /\ LET o == FunctionSetVector_call(vecs, space, s, x, out, vbc)
       IN last' = Record("call", s, NoArg, x, out, vbc, o, FALSE)
    /\ UNCHANGED <<space, vecs>>

\* The inputs the evaluations between algebra operations are sampled with.
FewInputs(d) ==
    IF d = 1 THEN {ScenarioX, Input("flat", << <<0, 2>> >>), Input("pt", << <<2>> >>)}
    ELSE {Input("arr", << <<0, 2>>, <<2, 2>> >>),
          Input("mesh", << <<0, 2>>, <<2>> >>)}

Vectors == {s \in Slots : vecs[s] # NoVec}

\* fspace._lincomb(a, vecs[i], b, vecs[j], out=vecs[o])
Lincomb(a, i, b, j, o) ==
    /\ {i, j, o} \subseteq Vectors
    /\ LET r == lincomb(vecs, a, i, b, j, o)
       IN /\ vecs' = r.heap
          /\ last' = Last("_lincomb", o, <<a, i, b, j>>, BadInput, NoOut, TRUE,
                          Plain(r.res), r.heap)
    /\ UNCHANGED space

\* fspace._multiply(vecs[i], vecs[j], out=vecs[o])
Multiply(i, j, o) ==
    /\ {i, j, o} \subseteq Vectors
    /\ LET r == multiply(vecs, i, j, o)
       IN /\ vecs' = r.heap
          /\ last' = Last("_multiply", o, <<i, j>>, BadInput, NoOut, TRUE,
                          Plain(r.res), r.heap)
    /\ UNCHANGED space

\* fspace._divide(vecs[i], vecs[j], out=vecs[o])
Divide(i, j, o) ==
    /\ {i, j, o} \subseteq Vectors
    /\ LET r == divide(vecs, i, j, o)
       IN /\ vecs' = r.heap
          /\ last' = Last("_divide", o, <<i, j>>, BadInput, NoOut, TRUE,
                          Plain(r.res), r.heap)
    /\ UNCHANGED space

\* fspace._scalar_power(vecs[i], p, out=vecs[o])
ScalarPower(i, p, o) ==
    /\ {i, o} \subseteq Vectors
    /\ LET r == scalar_power(vecs, i, p, o)
       IN /\ vecs' = r.heap
          /\ last' = Last("_scalar_power", o, <<i, p>>, BadInput, NoOut, TRUE,
                          Plain(r.res), r.heap)
    /\ UNCHANGED space

\* vecs[i].assign(vecs[j])
Assign(i, j) ==
    /\ {i, j} \subseteq Vectors
    /\ LET r == assign(vecs, i, j)
       IN /\ vecs' = r.heap
          /\ last' = Last("assign", i, <<j>>, BadInput, NoOut, TRUE,
                          Plain(r.res), r.heap)
    /\ UNCHANGED space

\* g = vecs[i].copy(), g the object of slot s
Copy(i, s) ==
    /\ i \in Vectors
    /\ FreeSlot(s)
    /\ LET r == copy(vecs, i, s)
       IN /\ vecs' = r.heap
          /\ last' = Last("copy", s, <<i>>, BadInput, NoOut, TRUE,
                          Plain(r.res), r.heap)
    /\ UNCHANGED space

\* What can follow an operation that changed no object is what can follow
\* the state it was taken from.  Operations are therefore taken from the
\* initial state and from the states left by an operation that changed an
\* object; the reachable objects are the same.
Ready == last.changed

\* Every operation on the objects, with evaluations on a few inputs.
Next ==
    \/ \E spcls \in SpaceClasses, a \in ElementArgs, s \in Slots :
          Ready /\ Element(spcls, a[1], a[2], s)
    \/ \E vz \in BOOLEAN, s \in Slots : Ready /\ Zero(vz, s)
    \/ \E vz \in BOOLEAN, s \in Slots : Ready /\ One(vz, s)
    \/ \E a, b \in {0, 1, 2}, i, j, o \in Slots : Ready /\ Lincomb(a, i, b, j, o)
    \/ \E i, j, o \in Slots : Ready /\ Multiply(i, j, o)
    \/ \E i, j, o \in Slots : Ready /\ Divide(i, j, o)
    \/ \E i, o \in Slots, p \in {0, 1, 2, 5, 8, 17} : Ready /\ ScalarPower(i, p, o)
    \/ \E i, j \in Slots : Ready /\ Assign(i, j)
    \/ \E i, s \in Slots : Ready /\ Copy(i, s)
    \/ /\ Ready
       /\ \E s \in Slots, x \in FewInputs(space.ndim), vbc \in BOOLEAN :
             \E out \in OutArgs(x) : Call(s, x, out, vbc)

\* The evaluation protocol on one vector, with every sampled input.
NextCall ==
    \/ \E a \in ElementArgs : Ready /\ Element("FunctionSet", a[1], a[2], 1)
    \/ /\ Ready
       /\ \E x \in Inputs(space.ndim), vbc \in BOOLEAN :
             \E out \in OutArgs(x) : Call(1, x, out, vbc)

SpecCall == Init /\ [][NextCall]_vars

Spec == Init /\ [][Next]_vars

-----------------------------------------------------------------------------
(* Properties *)

\* vecs[s](x, vec_bounds_check=False) in the current state
EvalAt(s, x) == FunctionSetVector_call(vecs, space, s, x, NoOut, FALSE)

\* The evaluation of the last operation was a call of a vector built by
\* element(f, vectorized=True) from a callable that can be called without
\* an output buffer.
CallOfVectorized ==
    /\ last.op = "call"
    /\ vecs[last.slot].call_out_of_place.op = "user"

\* The input of the last call in the form the callable receives it.
PassedX == passed_input(converted_input(last.x, space.ndim), space.ndim)

\* The bounds check of the last call had nothing to object to the input.
InputAdmitted ==
    \/ ~last.vbc
    \/ space.hasCA /\ domain_contains_all(last.x)

\* C1: for all scalars a, b and vectors x1, x2, _lincomb(a, x1, b, x2, out)
\* populates out, and out then evaluates out of place at every sampled x to
\* a*x1(x) + b*x2(x) (compared where out is neither operand, so that the
\* operands can still be evaluated).
C1_LincombLinear ==
    last.op = "_lincomb" =>
        /\ last.res = "ok"
        /\ LET a == last.arg[1]
               i == last.arg[2]
               b == last.arg[3]
               j == last.arg[4]
           IN last.slot \notin {i, j} =>
                \A x \in FewInputs(space.ndim) :
                    LET r1 == EvalAt(i, x)
                        r2 == EvalAt(j, x)
                        r == EvalAt(last.slot, x)
                    IN (r1.res = "ok" /\ r2.res = "ok") =>
                          /\ r.res = "ok"
                          /\ r.val.data =
                                Elementwise("add",
                                    Elementwise("mul", r1.val, Scalar(a)),
                                    Elementwise("mul", r2.val, Scalar(b))).data

\* C2: zero() and one() of a FunctionSpace return vectors, and for every
\* vector f and every sampled x, (f + zero())(x) = f(x) and
\* (f * one())(x) = f(x).
C2_ZeroOneIdentity ==
    last.op \in {"zero", "one"} =>
        /\ last.res = "ok"
        /\ vecs[last.slot] # NoVec
        /\ \A i \in Vectors \ {last.slot}, x \in FewInputs(space.ndim) :
              LET z == last.slot
                  h == IF last.op = "zero"
                       THEN lincomb(vecs, 1, i, 1, z, z).heap
                       ELSE multiply(vecs, i, z, z).heap
                  r == FunctionSetVector_call(h, space, z, x, NoOut, FALSE)
                  rf == EvalAt(i, x)
              IN rf.res = "ok" => (r.res = "ok" /\ r.val = rf.val)

\* C3: for every vector f and every n in {0, 1, 2, 5, 8, 17}, building f**n
\* by _scalar_power succeeds, and evaluating the power at a sampled x returns
\* f(x)**n.
C3_ScalarPower ==
    last.op = "_scalar_power" =>
        /\ last.res = "ok"
        /\ LET i == last.arg[1]
               n == last.arg[2]
           IN last.slot # i =>
                \A x \in FewInputs(space.ndim) :
                    LET rf == EvalAt(i, x)
                        r == EvalAt(last.slot, x)
                    IN rf.res = "ok" =>
                          /\ r.res = "ok"
                          /\ r.val.data = [k \in 1 .. Len(rf.val.data) |->
                                              IntPow(rf.val.data[k], n)]

\* C4: the call of a vectorized vector without output buffer returns, for a
\* (d, N) coordinate array, an array of shape (N,) and, for a meshgrid, an
\* array of the broadcast shape of its components.  The callable returns one
\* value per point: f(x) = x[0] does so for a coordinate array, the others
\* for both input forms.
C4_ShapeContract ==
    ( /\ CallOfVectorized
      /\ last.out = NoOut
      /\ last.x.kind \in {"arr", "mesh"}
      /\ \/ vecs[last.slot].call_out_of_place.f \in {"dbl", "inc_dual"}
         \/ vecs[last.slot].call_out_of_place.f = "x0" /\ last.x.kind = "arr"
      /\ InputAdmitted )
    => /\ last.res = "ok"
       /\ last.val.kind = "arr"
       /\ last.val.shape = IF last.x.kind = "arr" THEN <<Len(last.x.v[1])>>
                           ELSE out_shape_from_meshgrid(last.x)

\* C5 as stated: with the bounds check enabled, the call on an array or a
\* meshgrid with a point outside the domain fails with OutOfDomain, with or
\* without an output buffer.
C5_OutOfDomainAlways ==
    ( /\ last.op = "call"
      /\ last.vbc
      /\ last.x.kind \in {"arr", "mesh", "flat"}
      /\ ~domain_contains_all(last.x) )
    => last.res = "OutOfDomain"

\* C5: with the bounds check enabled and a domain that has contains_all, the
\* call on an array or a meshgrid with a point outside the domain fails with
\* OutOfDomain, with or without an output buffer, before any callable is
\* invoked and without a write to the buffer.
C5_OutOfDomain ==
    ( /\ last.op = "call"
      /\ last.vbc
      /\ space.hasCA
      /\ last.x.kind \in {"arr", "mesh", "flat"}
      /\ ~domain_contains_all(last.x) )
    => /\ last.res = "OutOfDomain"
       /\ last.ncall = 0
       /\ last.buf = last.out

C5_Witness ==
    /\ last.op = "call"
    /\ last.vbc
    /\ space.hasCA
    /\ last.x.kind = "mesh"
    /\ ~domain_contains_all(last.x)
    /\ last.out # NoOut
    /\ last.res = "OutOfDomain"

\* C6: with the bounds check enabled, a call that returns has consulted the
\* range, and what it returns lies in the range, after the evaluation
\* without output buffer as well as after the evaluation into a buffer.
C6_RangeChecked ==
    (last.op = "call" /\ last.vbc /\ last.res = "ok") =>
        /\ "range" \in last.ca
        /\ range_contains_all(vecs[last.slot].space, last.val)

C8_CopyAssign ==
    last.op \in {"copy", "assign"} =>
        /\ last.res = "ok"
        /\ FunctionSetVector_eq(vecs, last.slot, last.arg[1]) = "True"
        /\ \A x \in FewInputs(space.ndim) :
              EvalAt(last.slot, x).res = EvalAt(last.arg[1], x).res
              /\ EvalAt(last.slot, x).val = EvalAt(last.arg[1], x).val

\* C9: on the interval [0,1] the vector of f(x) = x[0] evaluates on the
\* (1, 3) array [0.0, 0.5, 1.0] to [0.0, 0.5, 1.0], and the product f*f
\* evaluates on it to [0.0, 0.25, 1.0].
C9_Scenario ==
    /\ ( /\ CallOfVectorized
         /\ vecs[last.slot].call_out_of_place.f = "x0"
         /\ last.x = ScenarioX
         /\ last.out = NoOut
         /\ InputAdmitted )
       => /\ last.res = "ok"
          /\ last.val = Arr(<<3>>, <<0, 1, 2>>)
    /\ ( /\ last.op = "_multiply"
         /\ space.ndim = 1
         /\ \A k \in 1 .. 2 :
               /\ vecs[last.arg[k]].call_out_of_place.op = "user"
               /\ vecs[last.arg[k]].call_out_of_place.f = "x0" )
       => /\ last.res = "ok"
          /\ EvalAt(last.slot, ScenarioX).res = "ok"
          /\ EvalAt(last.slot, ScenarioX).val = Arr(<<3>>, <<0, 1, 4>>)

\* C10: the call on a single element of the domain without output buffer
\* returns the bare value of the function at that point; a call with an
\* output buffer that returns, returns the buffer.
C10_ScalarCall ==
    /\ ( /\ CallOfVectorized
         /\ contains(last.x, space.ndim)
         /\ last.out = NoOut
         /\ ~last.vbc \/ space.hasCA )
       => /\ last.res = "ok"
          /\ last.val = Scalar(PointValue(vecs[last.slot].call_out_of_place.f,
                                          last.x.v[1]))
    /\ (last.op = "call" /\ last.out # NoOut /\ last.res = "ok")
       => last.val = last.buf

-----------------------------------------------------------------------------
(* States in which the calls above fail *)

\* _lincomb on two vectors built by element(f, vectorized=True) raises
\* AttributeError at `x1.vectorized` and leaves out as it was.
C1_Witness ==
    /\ last.op = "_lincomb"
    /\ last.res = "AttributeError"
    /\ \A k \in {2, 4} : vecs[last.arg[k]].call_out_of_place.op = "user"

\* fspace.zero() raises TypeError in FunctionSpaceVector.__init__: no vector.
C2_Witness ==
    /\ last.op = "zero"
    /\ last.arg = <<TRUE>>
    /\ last.res = "TypeError"
    /\ vecs[last.slot] = NoVec

\* _scalar_power(f, 17, out) raises AttributeError at `self.vectorized`.
C3_Witness ==
    /\ last.op = "_scalar_power"
    /\ last.arg[2] = 17
    /\ last.res = "AttributeError"

\* f(x) = x[0] over a one-dimensional domain, called with a (1, 2) array of
\* points of the domain: ShapeMismatch.
C4_Witness ==
    /\ CallOfVectorized
    /\ vecs[last.slot].call_out_of_place.f = "x0"
    /\ space.ndim = 1
    /\ last.x.kind = "arr"
    /\ Len(last.x.v[1]) = 2
    /\ last.out = NoOut
    /\ space.hasCA /\ last.vbc /\ domain_contains_all(last.x)
    /\ last.res = "ShapeMismatch"

\* A checked call that returns a value outside the range.
C6_Witness ==
    /\ CallOfVectorized
    /\ vecs[last.slot].call_out_of_place.f = "dbl"
    /\ last.vbc
    /\ space.hasCA
    /\ last.x.kind = "arr"
    /\ last.res = "ok"
    /\ \E k \in 1 .. Len(last.val.data) : last.val.data[k] \notin RngIv
    /\ "range" \notin last.ca

\* f.copy() raises TypeError in self.space.element(): no copy.
C8_Witness ==
    /\ last.op = "copy"
    /\ last.res = "TypeError"
    /\ vecs[last.slot] = NoVec

\* The scenario's call raises ShapeMismatch.
C9_Witness ==
    /\ CallOfVectorized
    /\ vecs[last.slot].call_out_of_place.f = "x0"
    /\ last.x = ScenarioX
    /\ last.out = NoOut
    /\ InputAdmitted
    /\ last.res = "ShapeMismatch"

\* The call on an element of the domain raises InvalidInput.
C10_Witness ==
    /\ CallOfVectorized
    /\ contains(last.x, space.ndim)
    /\ last.out = NoOut
    /\ space.hasCA
    /\ last.res = "InvalidInput"

-----------------------------------------------------------------------------
(* The evaluation protocol: output buffer, shape, input form, capability *)

\* The vector of the last call was built by element(f, vectorized=False).
CallOfNonVectorized ==
    /\ last.op = "call"
    /\ vecs[last.slot].call_out_of_place.op = "vect_decorator"

\* C11: a call with an output buffer on a vector whose vectorized flag is
\* false fails with InvalidUsage; on a vector whose flag is true, with a
\* buffer of the expected shape, the in-place closure is invoked and the
\* call returns the buffer it was given.
C11_OutputBuffer ==
    /\ ( /\ CallOfNonVectorized
         /\ last.out # NoOut
         /\ last.x.kind \in {"arr", "mesh", "flat"}
         /\ InputAdmitted )
       => last.res = "InvalidUsage"
    /\ ( /\ last.op = "call"
         /\ vecs[last.slot].call_in_place.op = "user"
         /\ last.out # NoOut
         /\ last.x.kind \in {"arr", "mesh", "flat"}
         /\ last.out.shape = expected_out_shape(last.x, space.ndim)
         /\ ~last.vbc )
       => /\ last.res = "ok"
          /\ last.ncall = 1
          /\ last.val = last.buf

\* The call with a buffer on a vector built with vectorized=False raises
\* AttributeError at `self.vectorized`, having written nothing.
C11_Witness ==
    /\ CallOfNonVectorized
    /\ last.out # NoOut
    /\ last.x.kind = "arr"
    /\ InputAdmitted
    /\ last.res = "AttributeError"
    /\ last.buf = last.out

\* What the callable of the last call returns for the input it is handed,
\* and the shape the call expects of it.
Returned == UserCall(vecs[last.slot].call_out_of_place.f, PassedX)

ExpectedShape == expected_out_shape(last.x, space.ndim)

NoArrayNoMeshgrid ==
    /\ ~is_valid_input_array(last.x, space.ndim)
    /\ ~is_valid_input_meshgrid(last.x, space.ndim)

\* C13 as stated: the call on an input that is neither an element of the
\* domain (nor something domain.element makes one of), nor a (d, N) array,
\* nor a length-d meshgrid fails with InvalidInput.
C13_InvalidInputAlways ==
    ( /\ last.op = "call"
      /\ NoArrayNoMeshgrid
      /\ ~contains(last.x, space.ndim)
      /\ ~element_converts(last.x, space.ndim) )
    => last.res = "InvalidInput"

\* C13: unless the bounds check is wanted on a domain without contains_all,
\* the call fails with InvalidInput exactly on the inputs that are neither a
\* (d, N) array nor a length-d meshgrid and that domain.element is not asked
\* to convert or cannot convert; no callable is invoked then and the buffer
\* is left as it was.
C13_InvalidInput ==
    (last.op = "call" /\ ~(last.vbc /\ ~space.hasCA)) =>
        /\ last.res = "InvalidInput" <=>
              /\ NoArrayNoMeshgrid
              /\ \/ contains(last.x, space.ndim)
                 \/ ~element_converts(last.x, space.ndim)
        /\ last.res = "InvalidInput" => (last.ncall = 0 /\ last.buf = last.out)

\* An input of no form, with a buffer, on a domain with contains_all.
C13_Witness ==
    /\ last.op = "call"
    /\ last.vbc
    /\ space.hasCA
    /\ last.x = BadInput
    /\ last.out # NoOut
    /\ last.res = "InvalidInput"
    /\ last.buf = last.out

\* C14: a call with the bounds check requested on a domain without
\* contains_all fails with MissingCapability, whatever the input and the
\* output argument: no callable is invoked, no set is consulted and the
\* buffer is left as it was.
C14_MissingCapability ==
    (last.op = "call" /\ last.vbc /\ ~space.hasCA) =>
        /\ last.res = "MissingCapability"
        /\ last.ncall = 0
        /\ last.ca = {}
        /\ last.val = NoVal
        /\ last.buf = last.out

\* A call on points of the domain that would evaluate with the bounds check
\* disabled.
C14_Witness ==
    /\ CallOfVectorized
    /\ last.vbc
    /\ ~space.hasCA
    /\ last.x.kind \in {"arr", "mesh"}
    /\ domain_contains_all(last.x)
    /\ Returned.shape = ExpectedShape
    /\ last.res = "MissingCapability"

-----------------------------------------------------------------------------
(* The vectorization decorator on its own *)

\* The inputs a decorated function is sampled with.
VectInputs(d) ==
    ArrInputs(d) \cup MeshInputs(d) \cup {BadInput}
    \cup (IF d = 1 THEN FlatInputs ELSE {})

\* How a decorated function is called and with which output: x alone, or
\* out by position or by keyword, out being None, a buffer with one slot
\* per point, with one slot more or with one slot less.
VectOutArgs(x) ==
    LET n == SeqProd(SampleShape(x))
    IN {<<"x", NoOut>>} \cup
       ({"pos", "kw"} \X (OutArgs(x) \cup {Arr(<<n - 1>>, Const(n - 1, 7))}))

InitVectorize ==
    /\ space \in [ndim : Dims, hasCA : {TRUE}]
    /\ vecs = [s \in Slots |-> NoVec]
    /\ last = Record("init", 0, NoArg, BadInput, NoOut, TRUE, Plain("ok"), TRUE)

\* g = vectorize(dtype, outarg)(f)
Vectorize(dtype, outarg, f) ==
    /\ last.op = "init"
    /\ last' = Record("vectorize", 0, <<dtype, outarg, f>>, BadInput, NoOut,
                      TRUE, Plain(vect_decorator(dtype, outarg, f)), TRUE)
    /\ UNCHANGED <<space, vecs>>

\* g(x), g(x, out), g(x, out=out)
CallDecorated(x, how, out) ==
    /\ last.op = "vectorize"
    /\ last.res = "ok"
    /\ LET o == decorated_call(last.arg[1], last.arg[2], last.arg[3], x, how, out)
       IN last' = Record("vect_call", 0, Append(last.arg, how), x, out, TRUE,
                         o, FALSE) @@ [ret |-> o.ret]
    /\ UNCHANGED <<space, vecs>>

NextVectorize ==
    \/ /\ last.op = "init"
       \* the dtype (None: "lazy"), the outarg (one that is not understood
       \* among them) and the function to wrap
       /\ \E dtype \in {"None", "float"},
             outarg \in {"none", "positional", "optional", "both"},
             f \in {"x0", "dbl"} :
             Vectorize(dtype, outarg, f)
    \/ /\ last.op = "vectorize"
       /\ \E x \in VectInputs(space.ndim) :
             \E a \in VectOutArgs(x) : CallDecorated(x, a[1], a[2])

SpecVectorize == InitVectorize /\ [][NextVectorize]_vars

\* The last operation called a decorated function on a coordinate array or
\* a meshgrid, the wrapped function returns a value at every point, and the
\* buffer, if one is handed over, has one slot per point.
VectCall ==
    /\ last.op = "vect_call"
    /\ last.x.kind \in {"arr", "flat", "mesh"}
    /\ last.arg[3] = "dbl" \/ last.x.kind # "flat"
    /\ last.out # NoOut => Len(last.out.data) = Len(PointInputs(last.x))

\* The values of the wrapped function at the points of the last input, in
\* the order of the points.
VectValues ==
    [k \in 1 .. Len(PointInputs(last.x)) |->
        PointValue(last.arg[3], PointInputs(last.x)[k].v[1])]

\* The last call returned a newly allocated result with the values.
ReturnedNew ==
    /\ last.res = "ok"
    /\ last.ret = "new"
    /\ last.val.data = VectValues

\* The last call wrote the values into the buffer and returned the buffer.
ReturnedOut ==
    /\ last.res = "ok"
    /\ last.ret = "out"
    /\ last.val = last.buf
    /\ last.buf.data = VectValues

\* C15: a function produced by vectorize follows its output policy: under
\* 'none' it returns a new result and rejects an out argument; under
\* 'positional' it writes into the buffer given as second positional
\* argument and returns that buffer; under 'optional' it writes into and
\* returns the buffer when one is given and returns a new result when it is
\* absent.
C15_OutputPolicy ==
    VectCall =>
        LET outarg == last.arg[2]
            how == last.arg[4]
        IN /\ (outarg = "none" /\ how = "x") => ReturnedNew
           /\ (outarg = "none" /\ how # "x") =>
                 (last.res = "TypeError" /\ last.ncall = 0 /\ last.buf = last.out)
           /\ (outarg = "positional" /\ how = "pos" /\ last.out # NoOut)
                 => ReturnedOut
           /\ (outarg = "optional" /\ last.out # NoOut) => ReturnedOut
           /\ (outarg = "optional" /\ last.out = NoOut) => ReturnedNew

\* The function of vectorize(outarg='none')(f), no dtype given, called on a
\* meshgrid: f is invoked at the first point, then `out.flat` of the list
\* raises AttributeError.
C15_Witness ==
    /\ VectCall
    /\ last.arg[1] = "None"
    /\ last.arg[2] = "none"
    /\ last.arg[4] = "x"
    /\ last.x.kind = "mesh"
    /\ last.res = "AttributeError"
    /\ last.ncall = 1

-----------------------------------------------------------------------------
(* Vector objects: evaluation mode and vectorized flag *)

\* The mode the flags _call_has_out and _call_out_optional of a vector say.
ModeOf(v) ==
    CASE ~v.call_has_out /\ ~v.call_out_optional -> "only_out_of_place"
      [] v.call_has_out /\ v.call_out_optional -> "dual_use"
      [] v.call_has_out /\ ~v.call_out_optional -> "only_in_place"
      [] OTHER -> "no_mode"

\* The closure can be called as c(x, out): a callable with an output
\* parameter, the wrapper of _default_in_place, a dual-use closure of the
\* algebra, a vectorization wrapper with an output argument.
TakesOut(c) ==
    \/ c.op = "user" /\ Signature(c.f) \in {"optional", "positional"}
    \/ c.op = "default_in_place"
    \/ c.op \in {"lincomb_call", "product_call", "quotient_call", "power_call"}
    \/ c.op = "vect_wrapper" /\ c.outarg \in {"positional", "optional"}

\* The closure can be called as c(x): a callable whose output parameter is
\* absent or optional, _out_of_place_not_impl, the one-parameter decorator
\* of vectorize, a closure of the algebra, a vectorization wrapper without
\* mandatory output argument.
TakesX(c) ==
    \/ c.op = "user" /\ Signature(c.f) \in {"none", "optional"}
    \/ c.op \in {"not_impl", "vect_decorator"}
    \/ BaseOp(c.op) \in {"lincomb", "product", "quotient", "power"}
    \/ c.op = "vect_wrapper" /\ c.outarg \in {"none", "optional"}

\* C16: after every sequence of element, zero, one, assign, copy and algebra
\* operations every vector is in exactly one of the modes only-out-of-place
\* (no output parameter), dual-use (optional output parameter, both closures
\* the same callable) and only-in-place (mandatory output parameter); its
\* in-place closure can be called as in_place(x, out), its out-of-place
\* closure as out_of_place(x); the in-place closure of an only-out-of-place
\* vector is the wrapper of _default_in_place and the out-of-place closure
\* of an only-in-place vector is _out_of_place_not_impl.
C16_Modes ==
    \A s \in Vectors :
        LET v == vecs[s]
        IN /\ ModeOf(v) \in {"only_out_of_place", "dual_use", "only_in_place"}
           /\ TakesOut(v.call_in_place)
           /\ TakesX(v.call_out_of_place)
           /\ ModeOf(v) = "dual_use" => v.call_in_place = v.call_out_of_place
           /\ ModeOf(v) = "only_out_of_place" =>
                 v.call_in_place.op = "default_in_place"
           /\ ModeOf(v) = "only_in_place" => v.call_out_of_place.op = "not_impl"

\* An assign that changed the mode of its target: the two vectors were built
\* in different modes, and both are dual-use now.
C16_Witness ==
    /\ last.op = "assign"
    /\ last.changed
    /\ last.slot # last.arg[1]
    /\ Vectors = Slots
    /\ \A s \in Slots : ModeOf(vecs[s]) = "dual_use"
    /\ vecs[last.slot].call_in_place = vecs[last.arg[1]].call_in_place

\* The flag as text
FlagOf(b) == IF b THEN "True" ELSE "False"

\* C17: every vector has a boolean vectorized flag; the vector of
\* element(f, vectorized=v) has the flag v; the output of _lincomb,
\* _multiply and _divide has the flag x1.vectorized or x2.vectorized; the
\* output of _scalar_power has the flag of its operand.
C17_VectorizedFlag ==
    /\ \A s \in Vectors : vecs[s].vectorized \in {"True", "False"}
    /\ (last.op = "element" /\ last.res = "ok")
          => vecs[last.slot].vectorized = FlagOf(last.arg[3])
    /\ last.op = "_lincomb" =>
          /\ last.res = "ok"
          /\ vecs[last.slot].vectorized =
                FlagOf("True" \in {vecs[last.arg[2]].vectorized,
                                   vecs[last.arg[4]].vectorized})
    /\ last.op \in {"_multiply", "_divide"} =>
          /\ last.res = "ok"
          /\ vecs[last.slot].vectorized =
                FlagOf("True" \in {vecs[last.arg[1]].vectorized,
                                   vecs[last.arg[2]].vectorized})
    /\ last.op = "_scalar_power" =>
          /\ last.res = "ok"
          /\ vecs[last.slot].vectorized = vecs[last.arg[1]].vectorized

\* element(f, vectorized=False) returned a vector without the attribute.
C17_Witness ==
    /\ last.op = "element"
    /\ last.arg[3] = FALSE
    /\ last.res = "ok"
    /\ ~vectorized_defined(vecs[last.slot])

-----------------------------------------------------------------------------
(* The algebra: what an evaluation invokes, and in which order *)

RECURSIVE Flatten(_, _)
RECURSIVE invoked_out_of_place(_, _)
RECURSIVE invoked_in_place(_, _, _, _, _)

\* The first k sequences of a sequence of sequences, concatenated.
Flatten(ss, k) == IF k = 0 THEN <<>> ELSE Flatten(ss, k - 1) \o ss[k]

\* The callables handed to element that the call c(x) invokes, in the order
\* of their invocation: a closure of the algebra calls x1_call_oop(x), then
\* x2_call_oop(x) unless the first call or the scaling of its result raised;
\* a vectorization wrapper calls the wrapped function point by point until
\* a call or a write raises.
invoked_out_of_place(c, x) ==
    LET calls == SubCalls(c, x)
        subs == [k \in 1 .. Len(calls) |->
                    invoked_out_of_place(calls[k][1], calls[k][2])]
        rs == [k \in 1 .. Len(calls) |-> call_out_of_place(calls[k][1], calls[k][2])]
        bad == FirstFailure(rs, Len(rs))
    IN CASE c.op = "user" -> <<c.f>>
         [] c.op = "vect_wrapper" ->
               Flatten(subs, IF bad = 0 THEN Len(subs) ELSE bad)
         [] BaseOp(c.op) = "lincomb" /\ c.a = 0 /\ c.b # 0 -> subs[2]
         [] BaseOp(c.op) = "lincomb" /\ c.b = 0 -> subs[1]
         [] BaseOp(c.op) = "lincomb" ->
               subs[1] \o (IF scaled(rs[1], c.a).res = "ok" THEN subs[2] ELSE <<>>)
         [] BaseOp(c.op) \in {"product", "quotient"} ->
               subs[1] \o (IF rs[1].res = "ok" THEN subs[2] ELSE <<>>)
         [] BaseOp(c.op) = "power" -> subs[1]
         [] OTHER -> <<>>

\* The callables handed to element that the call c(x, out) invokes, in the
\* order of their invocation: a dual-use closure of the algebra calls
\* x1_call_ip(x, out), then x2_call_ip(x, tmp) unless the first call raised;
\* the wrapper of _default_in_place evaluates its vector without output
\* buffer.
invoked_in_place(h, sp, c, x, out) ==
    LET cs == SubClosures(c)
        subs == [k \in 1 .. Len(cs) |-> invoked_in_place(h, sp, cs[k], x, out)]
        rs == [k \in 1 .. Len(cs) |-> call_in_place(h, sp, cs[k], x, out)]
        both == subs[1] \o (IF rs[1].res = "ok" THEN subs[2] ELSE <<>>)
    IN CASE c.op = "user" -> <<c.f>>
         [] c.op = "default_in_place" ->
               IF call_in_place(h, sp, c, x, out).ncall = 0 THEN <<>>
               ELSE invoked_out_of_place(
                        h[c.self].call_out_of_place,
                        passed_input(converted_input(x, sp.ndim), sp.ndim))
         [] c.op = "vect_wrapper" /\ c.outarg = "positional" ->
               invoked_out_of_place(c, x)
         [] c.op = "lincomb_call" /\ out.kind # "arr" -> <<>>
         [] c.op = "lincomb_call" /\ c.a = 0 /\ c.b = 0 -> <<>>
         [] c.op = "lincomb_call" /\ c.a = 0 -> subs[2]
         [] c.op = "lincomb_call" /\ c.b = 0 -> subs[1]
         [] c.op \in {"lincomb_call", "product_call", "quotient_call"} -> both
         [] c.op = "power_call" -> subs[1]
         [] OTHER -> <<>>

\* The vectors an algebra operation was handed as operands.
Operands ==
    CASE last.op = "_lincomb" -> <<last.arg[2], last.arg[4]>>
      [] last.op \in {"_multiply", "_divide"} -> <<last.arg[1], last.arg[2]>>
      [] last.op = "_scalar_power" -> <<last.arg[1]>>
      [] OTHER -> <<>>

\* The buffer of the shape an input asks for, holding 7 everywhere.
BufferFor(x) ==
    LET sh == expected_out_shape(x, space.ndim) IN Arr(sh, Const(SeqProd(sh), 7))

\* C18: _lincomb, _multiply, _divide and _scalar_power populate their
\* output without invoking a callable handed to element; the callables are
\* invoked when the output is evaluated: one evaluation without output
\* buffer of (f + g) * h, built by _lincomb(1, f, 1, g, out) and
\* _multiply(out, h, out), invokes the callable of f, then that of g, then
\* that of h, each once.
C18_Lazy ==
    /\ last.op \in {"_lincomb", "_multiply", "_divide", "_scalar_power"} =>
          (last.res = "ok" /\ last.ncall = 0)
    /\ ( /\ last.op = "_lincomb"
         /\ last.arg[1] = 1 /\ last.arg[3] = 1
         /\ \A k \in {2, 4} : vecs[last.arg[k]].call_out_of_place.op = "user" )
       => \A hv \in Vectors, x \in FewInputs(space.ndim) :
             LET f == vecs[last.arg[2]].call_out_of_place.f
                 g == vecs[last.arg[4]].call_out_of_place.f
                 o == last.slot
                 heap == multiply(vecs, o, hv, o).heap
                 px == passed_input(converted_input(x, space.ndim), space.ndim)
                 r == FunctionSetVector_call(heap, space, o, x, NoOut, FALSE)
             IN (vecs[hv].call_out_of_place.op = "user" /\ hv # o) =>
                   /\ r.ncall = 3
                   /\ invoked_out_of_place(heap[o].call_out_of_place, px)
                         = <<f, g, vecs[hv].call_out_of_place.f>>

\* C19: the evaluation of a vector built by _lincomb, _multiply or _divide
\* that evaluates both operands invokes what x1 invokes, then what x2
\* invokes, without and with an output buffer; the sequence is a function
\* of the vector and the input.
C19_OperandOrder ==
    ( /\ last.op \in {"_lincomb", "_multiply", "_divide"}
      /\ last.op = "_lincomb" => (last.arg[1] # 0 /\ last.arg[3] # 0) )
    => /\ last.res = "ok"
       /\ \A x \in FewInputs(space.ndim) :
             LET c == vecs[last.slot].call_out_of_place
                 ci == vecs[last.slot].call_in_place
                 px == passed_input(converted_input(x, space.ndim), space.ndim)
                 buf == BufferFor(x)
             IN /\ call_out_of_place(c, px).res = "ok" =>
                      invoked_out_of_place(c, px) =
                         invoked_out_of_place(c.x1_oop, px)
                         \o invoked_out_of_place(c.x2_oop, px)
                /\ call_in_place(vecs, space, ci, px, buf).res = "ok" =>
                      invoked_in_place(vecs, space, ci, px, buf) =
                         invoked_in_place(vecs, space, ci.x1_ip, px, buf)
                         \o invoked_in_place(vecs, space, ci.x2_ip, px, buf)

\* C20: the in-place closure installed by _lincomb(a, x1, b, x2, out),
\* called with an input x and a buffer of the shape x asks for that holds
\* other values, leaves a*x1(x) + b*x2(x) in the buffer and returns it, for
\* all a and b, zero and one among them (compared where out is neither
\* operand, so that the operands can still be evaluated).
C20_LincombInPlace ==
    last.op = "_lincomb" =>
        /\ last.res = "ok"
        /\ LET a == last.arg[1]
               i == last.arg[2]
               b == last.arg[3]
               j == last.arg[4]
           IN last.slot \notin {i, j} =>
                \A x \in FewInputs(space.ndim) :
                    LET px == passed_input(converted_input(x, space.ndim),
                                           space.ndim)
                        r1 == EvalAt(i, x)
                        r2 == EvalAt(j, x)
                        r == call_in_place(vecs, space,
                                           vecs[last.slot].call_in_place,
                                           px, BufferFor(x))
                    IN (r1.res = "ok" /\ r2.res = "ok"
                        /\ r1.val.shape = BufferFor(x).shape
                        /\ r2.val.shape = BufferFor(x).shape) =>
                          /\ r.res = "ok"
                          /\ r.val = r.buf
                          /\ r.buf.data =
                                Elementwise("add",
                                    Elementwise("mul", r1.val, Scalar(a)),
                                    Elementwise("mul", r2.val, Scalar(b))).data

\* _multiply raises AttributeError at `x1.vectorized`, having invoked no
\* callable: there is no product to evaluate.
C18_Witness ==
    /\ last.op = "_multiply"
    /\ last.res = "AttributeError"
    /\ last.ncall = 0
    /\ ~last.changed

\* _divide of two different vectors raises AttributeError and leaves the
\* closures of out as they were: they hold no operands.
C19_Witness ==
    /\ last.op = "_divide"
    /\ last.arg[1] # last.arg[2]
    /\ last.res = "AttributeError"
    /\ vecs[last.slot].call_out_of_place.op = "user"
    /\ SubCalls(vecs[last.slot].call_out_of_place, ScenarioX) = <<>>

\* _lincomb with both coefficients nonzero on dual-use operands raises
\* AttributeError: out keeps the in-place closure it had.
C20_Witness ==
    /\ last.op = "_lincomb"
    /\ last.arg[1] # 0 /\ last.arg[3] # 0
    /\ \A k \in {2, 4} : ModeOf(vecs[last.arg[k]]) = "dual_use"
    /\ last.slot \notin {last.arg[2], last.arg[4]}
    /\ last.res = "AttributeError"
    /\ vecs[last.slot].call_in_place.op \notin {"lincomb_call"}

-----------------------------------------------------------------------------
(* The closures a vector is built with, called on their own *)

\* The inputs a stored closure is sampled with: the wrapper of
\* _default_in_place hands its input to __call__, which takes anything; the
\* callables themselves are handed coordinate arrays and meshgrids.
ClosureInputs(c, d) ==
    IF c.op = "default_in_place" THEN Inputs(d)
    ELSE ArrInputs(d) \cup MeshInputs(d) \cup (IF d = 1 THEN FlatInputs ELSE {})

\* vecs[s]._call_in_place(x, out), the closure one of the two __init__ stores:
\* the callable itself or the wrapper of _default_in_place
ClosureInPlace(s, x, out) ==
    /\ vecs[s] # NoVec
    /\ out # NoOut
    /\ vecs[s].call_in_place.op \in {"user", "default_in_place"}
    /\ LET c == vecs[s].call_in_place
           o == IF c.op = "user" THEN func_call_in_place(c.f, x, out)
                ELSE default_in_place(
                         FunctionSetVector_call(vecs, space, c.self, x, NoOut, TRUE),
                         out)
       IN last' = Record("_call_in_place", s, NoArg, x, out, TRUE, o, FALSE)
    /\ UNCHANGED <<space, vecs>>

\* vecs[s]._call_out_of_place(x)
ClosureOutOfPlace(s, x) ==
    /\ vecs[s] # NoVec
    /\ LET o == call_out_of_place(vecs[s].call_out_of_place, x)
       IN last' = Record("_call_out_of_place", s, NoArg, x, NoOut, TRUE, o, FALSE)
    /\ UNCHANGED <<space, vecs>>

\* A vector built by element of either kind of space, and its two closures
\* called with every sampled input.
NextClosure ==
    \/ \E spcls \in SpaceClasses, a \in ElementArgs :
          Ready /\ Element(spcls, a[1], a[2], 1)
    \/ /\ Ready
       /\ vecs[1] # NoVec
       /\ \E x \in ClosureInputs(vecs[1].call_in_place, space.ndim) :
             \E out \in OutArgs(x) : ClosureInPlace(1, x, out)
    \/ /\ Ready
       /\ vecs[1] # NoVec
       /\ \E x \in ClosureInputs(vecs[1].call_out_of_place, space.ndim) :
             ClosureOutOfPlace(1, x)

SpecClosure == Init /\ [][NextClosure]_vars

\* The vector of the last operation was built from the callable f by
\* element(f, vectorized=True).
BuiltFrom(f) ==
    /\ vecs[last.slot] # NoVec
    /\ vecs[last.slot] = FunctionSetVector_init("FunctionSet", Clos("user", f, 0),
                                                last.slot)

C22_MandatoryOut ==
    \A f \in Callables :
        Signature(f) = "positional" =>
            /\ (last.op = "element" /\ last.arg = <<"FunctionSet", f, TRUE>>) =>
                  /\ last.res = "ok"
                  /\ vecs[last.slot].call_in_place = Clos("user", f, 0)
                  /\ vecs[last.slot].call_out_of_place.op = "not_impl"
            /\ (last.op = "_call_out_of_place" /\ BuiltFrom(f)) =>
                  /\ last.res = "NotImplementedError"
                  /\ last.ncall = 0
            /\ (last.op = "element" /\ last.arg = <<"FunctionSpace", f, TRUE>>) =>
                  /\ last.res = "ok"
                  /\ vecs[last.slot] # NoVec

\* FunctionSpace.element of a callable with mandatory output parameter raised
\* TypeError and built no vector.
C22_Witness ==
    /\ last.op = "element"
    /\ last.arg = <<"FunctionSpace", "fill_ip", TRUE>>
    /\ last.res = "TypeError"
    /\ vecs[last.slot] = NoVec

-----------------------------------------------------------------------------
(* The helpers pow_posint and ipow_posint of _scalar_power on their own *)

MaxPow == 8

\* The arrays and scalars the helpers are applied to
PowArrays ==
    UNION {{Arr(<<n>>, data) : data \in [1 .. n -> -2 .. 3]} : n \in 1 .. MaxN}

\* No vector is built: the helpers are applied to values alone.
InitAlone ==
    /\ space \in [ndim : {1}, hasCA : {TRUE}]
    /\ vecs = [s \in Slots |-> NoVec]
    /\ last = Record("init", 0, NoArg, BadInput, NoOut, TRUE, Plain("ok"), TRUE)

\* ipow_posint(x, n), x an array: x afterwards and the value returned are
\* the same object
IPowPosint(x, n) ==
    /\ last.op = "init"
    /\ last' = Record("ipow_posint", 0, <<n>>, BadInput, x, TRUE,
                      Wrote(pow_posint(x, n), {}, 0), FALSE)
    /\ UNCHANGED <<space, vecs>>

\* pow_posint(x, n): x is left alone, the power is taken of a copy of an
\* array and by x ** n of anything else
PowPosint(x, n) ==
    /\ last.op = "init"
    /\ last' = Record("pow_posint", 0, <<n>>, BadInput, x, TRUE,
                      Outcome("ok", pow_posint(x, n), x, {}, 0), FALSE)
    /\ UNCHANGED <<space, vecs>>

NextPow ==
    \/ /\ last.op = "init"
       /\ \E x \in PowArrays, n \in 1 .. MaxPow : IPowPosint(x, n)
    \/ /\ last.op = "init"
       /\ \E x \in PowArrays \cup {Scalar(c) : c \in -2 .. 3}, n \in 1 .. MaxPow :
             PowPosint(x, n)

SpecPow == InitAlone /\ [][NextPow]_vars

\* C23: ipow_posint(x, n) leaves x holding x0 ** n for every n >= 1 and
\* returns it (x unchanged for n = 1); pow_posint(x, n) returns the same
\* value and leaves its argument as it was.
C23_Power ==
    LET x == last.out
        n == last.arg[1]
        \* x ** n, entry by entry
        power == [x EXCEPT !.data = [k \in 1 .. Len(x.data) |->
                                        IntPow(x.data[k], n)]]
    IN /\ last.op = "ipow_posint" =>
             /\ last.res = "ok"
             /\ last.buf = power
             /\ last.val = last.buf
             /\ n = 1 => last.buf = x
       /\ last.op = "pow_posint" =>
             /\ last.res = "ok"
             /\ last.val = power
             /\ last.buf = x

\* ipow_posint took the fifth power of an array in place: an odd n that is
\* halved to an even one, the saved copy multiplied back in.
C23_Witness ==
    /\ last.op = "ipow_posint"
    /\ last.arg = <<5>>
    /\ last.out.data[1] = 2
    /\ last.buf.data[1] = 32
    /\ last.buf # last.out

\* C24: a function wrapped by vectorize, called without an output buffer on
\* an array of N points or on a meshgrid, with or without a dtype, returns
\* an output with exactly one slot per input point, written once per point,
\* slot i holding the value of the wrapped function at point i (the calls
\* without output buffer that the output policy admits).
C24_Fill ==
    ( /\ VectCall
      /\ last.out = NoOut
      /\ ~(last.arg[2] = "none" /\ last.arg[4] # "x")
      /\ ~(last.arg[2] = "positional" /\ last.arg[4] = "x") ) =>
        /\ last.res = "ok"
        /\ Len(last.val.data) = Len(PointInputs(last.x))
        /\ last.val.data = VectValues
        /\ last.ncall = Len(PointInputs(last.x))

\* Without a dtype, a meshgrid of 2 x 2 points: the list allocated has two
\* slots, the function is invoked at the first point and nothing is
\* returned.
C24_Witness ==
    /\ VectCall
    /\ last.out = NoOut
    /\ last.arg[2] = "optional"
    /\ last.arg[1] = "None"
    /\ last.x.kind = "mesh"
    /\ Len(PointInputs(last.x)) = 4
    /\ vect_alloc("None", last.x).shape = <<2>>
    /\ last.res = "AttributeError"
    /\ last.ncall = 1

-----------------------------------------------------------------------------
(* Failures of __call__ before the evaluation *)

\* C25: a call that fails at a stage before the evaluation (no contains_all
\* for the bounds check, an input of no valid form, points outside the
\* domain, an output buffer that is rejected) has not invoked the user
\* callable and leaves the buffer of the caller as it was; each of these
\* stages fails the call when its condition holds.
C25_FailsBeforeEvaluation ==
    last.op = "call" =>
        LET x1 == converted_input(last.x, space.ndim)
            \* the input, after the conversion of lines 501-507, is a
            \* coordinate array or a meshgrid
            valid == \/ is_valid_input_array(x1, space.ndim)
                     \/ is_valid_input_meshgrid(x1, space.ndim)
        IN /\ last.res \in {"MissingCapability", "InvalidInput", "OutOfDomain"}
                 => (last.ncall = 0 /\ last.buf = last.out)
           /\ (last.vbc /\ ~space.hasCA) => last.res = "MissingCapability"
           /\ (~(last.vbc /\ ~space.hasCA) /\ ~valid) => last.res = "InvalidInput"
           /\ (last.vbc /\ space.hasCA /\ valid /\ ~domain_contains_all(PassedX))
                 => last.res = "OutOfDomain"
           /\ last.out # NoOut =>
                 (last.res # "ok" /\ last.ncall = 0 /\ last.buf = last.out)

\* A call with points outside the domain and an output buffer failed with
\* OutOfDomain: no callable invoked, the buffer as it was.
C25_Witness ==
    /\ last.op = "call"
    /\ last.res = "OutOfDomain"
    /\ last.out # NoOut
    /\ last.x.kind = "arr"
    /\ last.buf = last.out
    /\ last.ncall = 0
    /\ vecs[last.slot].call_out_of_place.op = "user"

-----------------------------------------------------------------------------
(* The algebra: the two closures of a result, aliasing, and what an
   evaluation writes to *)

\* C26: for every vector produced by _lincomb, _multiply, _divide or
\* _scalar_power, the in-place evaluation into a fresh buffer of the
\* expected shape yields the values of the out-of-place evaluation.
C26_InPlaceAsOutOfPlace ==
    last.op \in {"_lincomb", "_multiply", "_divide", "_scalar_power"} =>
        /\ last.res = "ok"
        /\ \A x \in FewInputs(space.ndim) :
              LET px == passed_input(converted_input(x, space.ndim), space.ndim)
                  ro == call_out_of_place(vecs[last.slot].call_out_of_place, px)
                  ri == call_in_place(vecs, space, vecs[last.slot].call_in_place,
                                      px, BufferFor(x))
              IN (ro.res = "ok" /\ ro.val.shape = BufferFor(x).shape) =>
                    /\ ri.res = "ok"
                    /\ ri.buf.data = ro.val.data

\* _scalar_power with a positive exponent raises AttributeError at
\* `self.vectorized` and installs neither closure.
C26_Witness ==
    /\ last.op = "_scalar_power"
    /\ last.arg[2] >= 1
    /\ last.res = "AttributeError"
    /\ ~last.changed
    /\ BaseOp(vecs[last.slot].call_out_of_place.op) # "power"

\* C27: when out is one of the operands, the result evaluates, through both
\* closures, to the operation applied to the values the operands had before
\* the call.
C27_Aliased ==
    [][ (last'.op \in {"_lincomb", "_multiply", "_divide", "_scalar_power"} /\ \E k \in 1 .. Len(Operands') :
                                        Operands'[k] = last'.slot)
        => /\ last'.res = "ok"
           /\ \A x \in FewInputs(space.ndim) :
                 LET px == passed_input(converted_input(x, space.ndim), space.ndim)
                     o == last'.slot
                     r1 == EvalAt(Operands'[1], x)
                     r2 == EvalAt(Operands'[Len(Operands')], x)
                     want ==
                        CASE last'.op = "_lincomb" ->
                                Elementwise("add",
                                    Elementwise("mul", r1.val, Scalar(last'.arg[1])),
                                    Elementwise("mul", r2.val, Scalar(last'.arg[3])))
                          [] last'.op = "_multiply" -> Elementwise("mul", r1.val, r2.val)
                          [] last'.op = "_divide" -> Elementwise("div", r1.val, r2.val)
                          [] OTHER -> IF last'.arg[2] >= 1
                                      THEN pow_posint(r1.val, last'.arg[2])
                                      ELSE pow_zero(r1.val)
                     ro == FunctionSetVector_call(vecs', space, o, x, NoOut, FALSE)
                     ri == call_in_place(vecs', space, vecs'[o].call_in_place,
                                         px, BufferFor(x))
                 IN (r1.res = "ok" /\ r2.res = "ok"
                     /\ r1.val.shape = BufferFor(x).shape
                     /\ r2.val.shape = BufferFor(x).shape) =>
                       /\ ro.res = "ok" /\ ro.val.data = want.data
                       /\ ri.res = "ok" /\ ri.buf.data = want.data
      ]_vars

\* _multiply(x, y, out=x) raises AttributeError: x keeps the closure it had.
C27_Witness ==
    /\ last.op = "_multiply"
    /\ last.slot = last.arg[1]
    /\ last.arg[2] # last.slot
    /\ last.res = "AttributeError"
    /\ vecs[last.slot].call_out_of_place.op = "user"

\* The operand closures into whose returned array lincomb_call_out_of_place
\* writes (`out *= a`, `out *= b`, `out += tmp`, `tmp *= b`), lines 806-822.
written_results(c) ==
    IF BaseOp(c.op) # "lincomb" THEN {}
    ELSE IF c.a = 0 /\ c.b # 0 THEN (IF c.b # 1 THEN {c.x2_oop} ELSE {})
    ELSE IF c.b = 0 THEN (IF c.a # 1 THEN {c.x1_oop} ELSE {})
    ELSE {c.x1_oop} \cup (IF c.b # 1 THEN {c.x2_oop} ELSE {})

\* C28: the out-of-place evaluation of a vector built by the algebra writes
\* neither to the input x of the caller nor to an array an operand's
\* callable returned that shares its memory with x (the callable x[0]
\* returns a view of a coordinate array and the first array of a meshgrid).
C28_OutOfPlaceFrame ==
    last.op \in {"_lincomb", "_multiply", "_divide", "_scalar_power"} =>
        /\ last.res = "ok"
        /\ \A c \in written_results(vecs[last.slot].call_out_of_place) :
              ~(c.op = "user" /\ c.f = "x0")

\* _lincomb(2, x1, b, x2, out) with x1 the vector of x[0] raises
\* AttributeError: out gets no closure that would scale what x1 returns.
C28_Witness ==
    /\ last.op = "_lincomb"
    /\ last.arg[1] = 2
    /\ vecs[last.arg[2]].call_out_of_place = Clos("user", "x0", 0)
    /\ last.res = "AttributeError"
    /\ written_results(vecs[last.slot].call_out_of_place) = {}

\* C29: after g = f.copy() the copy exists and evaluates as f does, and
\* f.assign(k) for any vector k leaves both closures of g as they are.
C29_CopyIndependent ==
    last.op = "copy" =>
        /\ last.res = "ok"
        /\ vecs[last.slot] # NoVec
        /\ \A k \in Vectors :
              LET after == assign(vecs, last.arg[1], k).heap
              IN (k # last.slot /\ last.arg[1] # last.slot) =>
                    /\ after[last.slot].call_in_place = vecs[last.slot].call_in_place
                    /\ after[last.slot].call_out_of_place
                          = vecs[last.slot].call_out_of_place

\* copy of the vector of a FunctionSet raises TypeError in element(): there
\* is no copy, and the vector copied is as it was.
C29_Witness ==
    /\ last.op = "copy"
    /\ vecs[last.arg[1]].cls = "FunctionSetVector"
    /\ last.res = "TypeError"
    /\ ~last.changed
    /\ vecs[last.slot] = NoVec

-----------------------------------------------------------------------------
(* Equality of function sets *)

\* The sets the function sets are built over.
SetDomains == {"Interval(0, 1)", "Interval(0, 2)"}

\* FunctionSet(domain, range), range any set, and FunctionSpace(domain,
\* field), each built twice: equal records are the same object, `id` tells
\* two constructions with the same arguments apart.
FunctionSets ==
    {[cls |-> "FunctionSet", domain |-> d, range |-> r, id |-> n] :
        d \in SetDomains, r \in {"RealNumbers", "ComplexNumbers", "Integers"},
        n \in 1 .. 2}
    \cup {[cls |-> "FunctionSpace", domain |-> d, range |-> f, id |-> n] :
             d \in SetDomains, f \in {"RealNumbers", "ComplexNumbers"},
             n \in 1 .. 2}

isinstance(obj, cls) ==
    \/ obj.cls = cls
    \/ cls = "FunctionSet" /\ obj.cls = "FunctionSpace"

\* self.domain == other.domain, self.range == other.range: equality of the
\* sets by value
set_equal(s, t) == s = t

\* FunctionSet.__eq__(self, other)
FunctionSet_eq(self, other) ==
    IF other = self THEN TRUE
    ELSE /\ isinstance(other, "FunctionSet")
         /\ set_equal(self.domain, other.domain)
         /\ set_equal(self.range, other.range)

\* A variant of FunctionSpace.__eq__ that takes any FunctionSet for a
\* FunctionSpace.
FunctionSpace_eq_of_function_set(self, other) ==
    IF other = self THEN TRUE
    ELSE /\ isinstance(other, "FunctionSet")
         /\ set_equal(self.domain, other.domain)
         /\ set_equal(self.range, other.range)

\* FunctionSpace.__eq__(self, other)
FunctionSpace_eq(self, other) ==
    IF other = self THEN TRUE
    ELSE /\ isinstance(other, "FunctionSpace")
         /\ set_equal(self.domain, other.domain)
         /\ set_equal(self.range, other.range)

\* a == b, a a function set: the operand on the right is asked first when
\* its class is a proper subclass of the class on the left; neither __eq__
\* returns NotImplemented, so the first answer is the result.
set_eq(a, b) ==
    IF b.cls # a.cls /\ isinstance(b, a.cls) THEN FunctionSpace_eq(b, a)
    ELSE IF a.cls = "FunctionSpace" THEN FunctionSpace_eq(a, b)
    ELSE FunctionSet_eq(a, b)

Bool(b) == IF b THEN "True" ELSE "False"

\* A == B
CompareSets(A, B) ==
    /\ last.op = "init"
    /\ last' = Record("set_eq", 0, <<A, B>>, BadInput, NoOut, TRUE,
                      Plain(Bool(set_eq(A, B))), FALSE)
    /\ UNCHANGED <<space, vecs>>

NextSetEq ==
    /\ last.op = "init"
    \* B a function set or an object that is none: the domain itself
    /\ \E A \in FunctionSets,
             B \in FunctionSets \cup {[cls |-> "Interval", domain |-> "none",
                                        range |-> "none", id |-> 1]} :
          CompareSets(A, B)

SpecSetEq == InitAlone /\ [][NextSetEq]_vars

====
